---------------------------- MODULE Spec2Model ----------------------------
(***************************************************************************)
(* A model of the EcoFlow NUT bridge (src/simple_nut_server.py): the MQTT  *)
(* ingestion callback, the per-device aggregation update_ups_data, and the *)
(* NUT text-protocol handlers that serve the aggregate to clients.         *)
(*                                                                         *)
(* Conventions.                                                            *)
(*  - A Python value held in a device's dict is a record [k, n, d, s]:     *)
(*    k = "int" (value n), "float" (value n/d in lowest terms, d > 0) or   *)
(*    "str" (value s).                                                     *)
(*  - A decoded telemetry record (the dict MessageToDict returns) is a     *)
(*    function from its keys to integers; a key the dict lacks is not in   *)
(*    its DOMAIN.                                                          *)
(*  - A device's pack dict is the sequence of its records in insertion     *)
(*    order (Python dicts iterate in insertion order; assigning to a key   *)
(*    that exists keeps its position).                                     *)
(*  - A line of text is the sequence of its space-separated words; a reply *)
(*    is the sequence of its newline-terminated lines; no reply (None) is  *)
(*    the empty sequence.                                                  *)
(***************************************************************************)
EXTENDS Integers, Sequences, FiniteSets, TLC

(***************************************************************************)
(* Bounds of the model.                                                    *)
(***************************************************************************)
\* messages the transport delivers in one run
MaxMsgs == 2
\* raw pdata byte strings given to decode are of length 0 .. MaxRawLen
MaxRawLen == 1
\* telemetry messages delivered in a run with two clients
MaxServerMsgs == 1
\* pack indices carried by records are 0 .. MaxPackIdx
MaxPackIdx == 1
\* the wall clock runs over T0 .. T0 + MaxTicks
MaxTicks == 1
\* commands a client sends over one connection
MaxCmds == 2

(***************************************************************************)
(* Configuration: self.devices, in configuration order.  A serial number   *)
(* and a topic are sequences of characters, so that `serial in topic` is   *)
(* the substring test it is in the source.                                 *)
(***************************************************************************)
Devices ==
    << [serial |-> <<"S", "N", "1">>, ups_name |-> "ups1"],
       [serial |-> <<"S", "N", "2">>, ups_name |-> "ups2"] >>

UpsNames == { Devices[i].ups_name : i \in 1..Len(Devices) }

\* a device name no configuration entry carries
UnknownUps == "nosuch"

(***************************************************************************)
(* Python values.                                                          *)
(***************************************************************************)
RECURSIVE Gcd(_, _)
Gcd(a, b) == IF b = 0 THEN a ELSE Gcd(b, a % b)

PyInt(v) == [k |-> "int", n |-> v, d |-> 1, s |-> ""]

PyStr(t) == [k |-> "str", n |-> 0, d |-> 1, s |-> t]

\* the float num/den (num >= 0, den > 0), in lowest terms
PyFloat(num, den) ==
    LET g == Gcd(num, den)
    IN  [k |-> "float", n |-> num \div g, d |-> den \div g, s |-> ""]

\* x / c, Python's true division: always a float
TrueDiv(x, c) == PyFloat(x.n, x.d * c)

\* int(x): truncation toward zero of a non-negative number
Trunc(x) == PyInt(x.n \div x.d)

\* x * c for an integer c
Times(x, c) == IF x.k = "int" THEN PyInt(x.n * c) ELSE PyFloat(x.n * c, x.d)


(***************************************************************************)
(* Text rendering.                                                         *)
(***************************************************************************)
\* x rounded to tenths as format(x, ".1f") rounds it: to the nearest tenth,
\* a value exactly half way between two tenths going to the even one.  (The
\* half-way values the records of this model produce are binary fractions,
\* n/4, which a float holds exactly.)
Tenths(x) ==
    LET t == (10 * x.n) \div x.d
        r == (10 * x.n) % x.d
    IN  IF 2 * r > x.d THEN t + 1
        ELSE IF 2 * r < x.d THEN t
        ELSE IF t % 2 = 0 THEN t ELSE t + 1

\* f"{x:.1f}" for an int or a float
Fix1(x) == ToString(Tenths(x) \div 10) \o "." \o ToString(Tenths(x) % 10)

\* the decimal digits of r/d (0 <= r < d) by long division; a fraction that
\* has not ended after `left` digits is cut there and marked "..."
RECURSIVE FracDigits(_, _, _)
FracDigits(r, d, left) ==
    IF r = 0 THEN ""
    ELSE IF left = 0 THEN "..."
    ELSE ToString((10 * r) \div d) \o FracDigits((10 * r) % d, d, left - 1)

\* str(x), the text an f-string gives without a format: an int in decimal,
\* a str as it is, a float by repr (at least one fractional digit)
PyText(x) ==
    IF x.k = "int" THEN ToString(x.n)
    ELSE IF x.k = "str" THEN x.s
    ELSE IF x.n % x.d = 0 THEN ToString(x.n \div x.d) \o ".0"
    ELSE ToString(x.n \div x.d) \o "." \o FracDigits(x.n % x.d, x.d, 4)

(***************************************************************************)
(* Dicts.                                                                  *)
(***************************************************************************)
EmptyDict == [x \in {} |-> 0]

\* d.get(key, default)
DictGet(d, key, default) == IF key \in DOMAIN d THEN d[key] ELSE default

\* d[key] = value
DictSet(d, key, value) ==
    [x \in DOMAIN d \cup {key} |-> IF x = key THEN value ELSE d[x]]

\* the first position of key `num` in a pack sequence, 0 when absent
RECURSIVE PackPos(_, _, _)
PackPos(packs, num, i) ==
    IF i > Len(packs) THEN 0
    ELSE IF packs[i]["num"] = num THEN i
    ELSE PackPos(packs, num, i + 1)

\* PackUpsert on a list of records: the record is appended whatever its key
PackUpsertAppends(packs, data) == Append(packs, data)

\* packs[num] = data: in place when the key exists, appended otherwise
PackUpsert(packs, data) ==
    LET p == PackPos(packs, data["num"], 1)
    IN  IF p = 0 THEN Append(packs, data)
        ELSE [packs EXCEPT ![p] = data]

\* str(packs): the keys in order, each inner dict elided
RECURSIVE PacksItems(_, _)
PacksItems(packs, i) ==
    IF i > Len(packs) THEN ""
    ELSE (IF i > 1 THEN ", " ELSE "") \o ToString(packs[i]["num"]) \o ": {...}"
         \o PacksItems(packs, i + 1)

PacksText(packs) == "{" \o PacksItems(packs, 1) \o "}"


(***************************************************************************)
(* State.                                                                  *)
(*   ups_data  self.ups_data: device name -> [packs, vals]; packs is the   *)
(*             "packs" dict, vals the other keys of the device's dict      *)
(*   running   self.running                                                *)
(*   mq        the MQTT thread: its position in on_mqtt_message /          *)
(*             update_ups_data and the locals of the call in progress      *)
(*   conn      one entry per client connection: the position of its        *)
(*             _handle_nut_client thread and what it has sent              *)
(*   now       the wall clock, time.time(), in whole seconds               *)
(*   nmsg      messages delivered so far                                   *)
(*   outcome   device name -> how the last update_ups_data call for it     *)
(*             ended ("none" before the first call)                        *)
(*   prior     ups_data as it was when the update_ups_data call in        *)
(*             progress began (history, read by no action)                 *)
(*   cb        how the last on_mqtt_message call went (history)            *)
(*   dec       one call of EcoFlowProtobufParser.decode on its own: the    *)
(*             frame it is given and what comes back                       *)
(*   main      the position of start(): "new", "setup" (MQTT client set    *)
(*             up, line 434), "bound" (start_nut_server returned),         *)
(*             "serving" (the loop of line 448) or "raised"                *)
(*   stop      the position of stop(): "idle" (not called), "joining"      *)
(*             (in loop_stop, line 461) or "done"                          *)
(*   nut_server     self.nut_server: "none", "socket" (created, not       *)
(*             bound), "listening" or "closed"                             *)
(*   server_thread  the accept thread: "none", "accept" (in its loop) or  *)
(*             "exited"                                                    *)
(*   mqtt_client    self.mqtt_client: "none", "ready" (connected, its     *)
(*             loop not started), "started", "stopped", or "dead" (its    *)
(*             network thread ended by an exception)                       *)
(***************************************************************************)
VARIABLES ups_data, running, mq, conn, now, nmsg, outcome, prior, cb, dec,
          main, stop, nut_server, server_thread, mqtt_client

\* the process: start(), stop() and what they start and stop
process == << main, stop, nut_server, server_thread, mqtt_client >>

vars == << ups_data, running, mq, conn, now, nmsg, outcome, prior, cb, dec,
           process >>

\* the wall clock when the process starts
T0 == 1000

\* client connections the model follows
Conns == {1}

\* the client sockets of the runs with two clients
AllConns == {1, 2}

(***************************************************************************)
(* The NUT protocol: _get_ups_variables and _process_nut_command.          *)
(***************************************************************************)
NoReply == << >>

ReplyOK == << <<"OK">> >>

ErrUnknownUps == << <<"ERR", "UNKNOWN-UPS">> >>

\* the nine variables of LIST VAR, in the order the reply lists them
ListedVars ==
    << "battery.charge", "battery.capacity", "battery.capacity.nominal",
       "battery.voltage", "battery.temperature", "battery.runtime",
       "battery.status", "ups.status", "ups.timestamp" >>

\* the text _get_ups_variables writes for one variable
ListedText(vals, var) ==
    IF var \in {"battery.capacity", "battery.capacity.nominal", "battery.voltage"}
    THEN Fix1(DictGet(vals, var, PyInt(0)))
    ELSE IF var \in {"battery.status", "ups.status"}
    THEN PyText(DictGet(vals, var, PyStr("UNKNOWN")))
    ELSE PyText(DictGet(vals, var, PyInt(0)))

GetUpsVariables(ud, ups_name) ==
    IF ups_name \notin DOMAIN ud THEN ErrUnknownUps
    ELSE << <<"BEGIN", "LIST", "VAR">> >>
         \o [i \in 1..Len(ListedVars) |->
               <<"VAR", ups_name, ListedVars[i],
                 ListedText(ud[ups_name].vals, ListedVars[i])>>]
         \o << <<"END", "LIST", "VAR">> >>

\* the words of ws joined by single spaces
RECURSIVE JoinWords(_)
JoinWords(ws) ==
    IF ws = << >> THEN ""
    ELSE IF Len(ws) = 1 THEN ws[1]
    ELSE ws[1] \o " " \o JoinWords(Tail(ws))

\* command.startswith("LIST VAR ") / command.startswith("GET VAR ")
StartsWith2(cmd, w1, w2) == Len(cmd) >= 3 /\ cmd[1] = w1 /\ cmd[2] = w2

\* command.split("LIST VAR ")[1]: the text after the prefix, up to the next
\* "LIST VAR " when the command holds one
ListVarName(cmd) ==
    LET again == { i \in 3..(Len(cmd) - 2) : cmd[i] = "LIST" /\ cmd[i + 1] = "VAR" }
        cut   == CHOOSE i \in again : \A j \in again : i <= j
    IN  IF again = {} THEN JoinWords(SubSeq(cmd, 3, Len(cmd)))
        ELSE IF cut = 3 THEN ""
        ELSE JoinWords(SubSeq(cmd, 3, cut - 1)) \o " "

\* the text of self.ups_data[ups_name].get(var_name, 0) in a GET VAR reply
GetVarText(entry, var_name) ==
    IF var_name = "packs" THEN PacksText(entry.packs)
    ELSE LET value == DictGet(entry.vals, var_name, PyInt(0))
         IN  IF value.k = "float" THEN Fix1(value) ELSE PyText(value)

\* ListUpsReply listing the devices of self.ups_data, those with telemetry
ListUpsWithTelemetry ==
    << <<"BEGIN", "LIST", "UPS">> >>
    \o SelectSeq([i \in 1..Len(Devices) |->
                    <<Devices[i].ups_name, "EcoFlow", "River", "3", "Plus">>],
                 LAMBDA l : l[1] \in DOMAIN ups_data)
    \o << <<"END", "LIST", "UPS">> >>

ListUpsReply ==
    << <<"BEGIN", "LIST", "UPS">> >>
    \o [i \in 1..Len(Devices) |->
          <<Devices[i].ups_name, "EcoFlow", "River", "3", "Plus">>]
    \o << <<"END", "LIST", "UPS">> >>

\* lines 366-371
ListVarReply(ud, cmd) ==
    IF ListVarName(cmd) \in DOMAIN ud
    THEN GetUpsVariables(ud, ListVarName(cmd))
    ELSE ErrUnknownUps

\* GetVarReply reading the device with self.ups_data.get(ups_name, {})
GetVarReplyDefaulting(ud, cmd) ==
    IF Len(cmd) >= 4 THEN
        IF cmd[3] \in DOMAIN ud
        THEN << <<"VAR", cmd[3], cmd[4], GetVarText(ud[cmd[3]], cmd[4])>> >>
        ELSE << <<"VAR", cmd[3], cmd[4], "0">> >>
    ELSE NoReply

\* lines 375-386; a command of fewer than four words falls out of the
\* if-chain and the method returns None
GetVarReply(ud, cmd) ==
    IF Len(cmd) >= 4 THEN
        IF cmd[3] \in DOMAIN ud
        THEN << <<"VAR", cmd[3], cmd[4], GetVarText(ud[cmd[3]], cmd[4])>> >>
        ELSE ErrUnknownUps
    ELSE NoReply

ProcessNutCommand(ud, cmd) ==
    IF cmd = <<"LIST", "UPS">> THEN ListUpsReply
    ELSE IF StartsWith2(cmd, "LIST", "VAR") THEN ListVarReply(ud, cmd)
    ELSE IF StartsWith2(cmd, "GET", "VAR") THEN GetVarReply(ud, cmd)
    ELSE IF cmd = <<"USERNAME", "admin">> THEN ReplyOK
    ELSE IF cmd = <<"PASSWORD", "admin">> THEN ReplyOK
    ELSE IF cmd = <<"LOGIN">> THEN ReplyOK
    ELSE IF cmd = <<"LOGOUT">> THEN ReplyOK
    ELSE NoReply


(***************************************************************************)
(* Telemetry: the messages the transport delivers.                         *)
(*                                                                         *)
(* A payload is [bytes, ok, msg]: its leading bytes (at most two are ever  *)
(* read by the callback), whether the outer Send_Header_Msg frame parses,  *)
(* and the inner messages of the frame, each [enc_type, seq, cmd_func,     *)
(* cmd_id, pdata] with pdata a sequence of bytes, 0..255.                  *)
(*                                                                         *)
(* The message schemas (common.proto, pd335_bms_bp.proto, pr705.proto) are *)
(* not among the sources.  The model takes the protobuf wire format for    *)
(* the inner messages, every field a varint, with the fields numbered in   *)
(* the order of HeartbeatSchema and DisplaySchema.                         *)
(***************************************************************************)
None == [None |-> 0]

\* Python truthiness of a decoded result: None and the empty dict are false
Truthy(d) == d # None /\ DOMAIN d # {}

\* pack["chgDsgState"] == 1: the pack is discharging
Discharging == 1

Idle80 ==
    [soc |-> 80, vol |-> 12000, temp |-> 20, remainCap |-> 4000,
     designCap |-> 8000, remainTime |-> 60, chgDsgState |-> 0]

Dsg90 ==
    [soc |-> 90, vol |-> 13000, temp |-> 30, remainCap |-> 5000,
     designCap |-> 8000, remainTime |-> 120, chgDsgState |-> 1]

\* a record whose zero-valued fields MessageToDict left out
Chg12500 == [vol |-> 12500, chgDsgState |-> 2]

\* a heartbeat that carries no chgDsgState
NoState == [soc |-> 50, vol |-> 12000]

\* a DisplayPropertyUpload dict: no pack index, no pack fields
Display == [cmsBattSoc |-> 55]

WithNum(body, num) ==
    [x \in DOMAIN body \cup {"num"} |-> IF x = "num" THEN num ELSE body[x]]

\* the heartbeat records the model delivers
PackRecords ==
    { WithNum(Idle80, 0), WithNum(Chg12500, 0), WithNum(NoState, MaxPackIdx) }
    \cup { WithNum(Dsg90, num) : num \in 0..MaxPackIdx }

HeartbeatSchema ==
    << "num", "soc", "vol", "temp", "remainCap", "designCap", "remainTime",
       "chgDsgState" >>

DisplaySchema == << "cmsBattSoc" >>

\* the bytes of v >= 0 as a varint: seven bits a byte, low bits first, the
\* high bit set on every byte but the last
RECURSIVE Varint(_)
Varint(v) ==
    IF v < 128 THEN << v >> ELSE << 128 + (v % 128) >> \o Varint(v \div 128)

\* SerializeToString: the fields the record holds, in field order, from
\* field i on
RECURSIVE WireFrom(_, _, _)
WireFrom(schema, rec, i) ==
    IF i > Len(schema) THEN << >>
    ELSE (IF schema[i] \in DOMAIN rec
          THEN << 8 * i >> \o Varint(rec[schema[i]]) ELSE << >>)
         \o WireFrom(schema, rec, i + 1)

Wire(schema, rec) == WireFrom(schema, rec, 1)

\* the index of the last byte of the varint that begins at i, 0 when the
\* bytes end before it does
RECURSIVE VarintEnd(_, _)
VarintEnd(bytes, i) ==
    IF i > Len(bytes) THEN 0
    ELSE IF bytes[i] < 128 THEN i
    ELSE VarintEnd(bytes, i + 1)

\* the value of the varint bytes[i..j]
RECURSIVE VarintValue(_, _, _)
VarintValue(bytes, i, j) ==
    IF i = j THEN bytes[i]
    ELSE (bytes[i] - 128) + 128 * VarintValue(bytes, i + 1, j)

Malformed == [Malformed |-> 0]

\* ParseFromString and MessageToDict from byte i on, acc the fields read so
\* far: Malformed for a tag that is no varint field of the schema and for a
\* varint cut short
RECURSIVE ParseFrom(_, _, _, _)
ParseFrom(schema, bytes, i, acc) ==
    IF i > Len(bytes) THEN acc
    ELSE IF bytes[i] % 8 # 0 \/ bytes[i] \div 8 \notin 1..Len(schema)
    THEN Malformed
    ELSE LET j   == VarintEnd(bytes, i + 1)
             key == schema[bytes[i] \div 8]
         IN  IF j = 0 THEN Malformed
             ELSE ParseFrom(schema, bytes, j + 1,
                            [x \in DOMAIN acc \cup {key} |->
                               IF x = key THEN VarintValue(bytes, i + 1, j)
                               ELSE acc[x]])

InnerParse(schema, bytes) == ParseFrom(schema, bytes, 1, [x \in {} |-> 0])

\* a ^ b on Python ints, b of either sign (two's complement, unbounded)
RECURSIVE PyXor(_, _)
PyXor(a, b) ==
    IF b < 0 THEN -PyXor(a, -b - 1) - 1
    ELSE IF a = 0 THEN b
    ELSE IF b = 0 THEN a
    ELSE (((a % 2) + (b % 2)) % 2) + 2 * PyXor(a \div 2, b \div 2)

\* Unmask adding the sequence number instead
UnmaskByAdding(pdata, seq) ==
    [i \in 1..Len(pdata) |-> (pdata[i] + seq) % 256]

\* lines 32-34: pdata[i] = (pdata[i] ^ seq) & 0xFF for every byte
Unmask(pdata, seq) ==
    [i \in 1..Len(pdata) |-> PyXor(pdata[i], seq) % 256]

\* the schema line 36 or 42 picks for (cmd_func, cmd_id), << >> for none
SchemaOf(cmd_func, cmd_id) ==
    IF cmd_func = 32 /\ cmd_id = 50 THEN HeartbeatSchema
    ELSE IF cmd_func = 254 /\ cmd_id = 21 THEN DisplaySchema
    ELSE << >>

\* a frame that carries rec as its one inner message, not masked
Frame(cmd_func, cmd_id, rec) ==
    [bytes |-> <<10, 5>>, ok |-> TRUE,
     msg |-> << [enc_type |-> 0, seq |-> 0, cmd_func |-> cmd_func,
                 cmd_id |-> cmd_id,
                 pdata |-> Wire(IF rec = Display THEN DisplaySchema
                                ELSE HeartbeatSchema, rec)] >>]

\* the same frame as the device sends it with the encryption flag set: the
\* sender masks with the operation the decoder unmasks with
MaskedFrame(cmd_func, cmd_id, rec, seq) ==
    [Frame(cmd_func, cmd_id, rec) EXCEPT
       !.msg[1].enc_type = 1, !.msg[1].seq = seq,
       !.msg[1].pdata = Unmask(@, seq)]

\* payloads no record comes out of: a JSON status text, an empty payload, a
\* frame that does not parse, a frame with no inner message, a frame whose
\* (cmd_func, cmd_id) is no known schema
NoRecordPayloads ==
    { [bytes |-> <<123, 34>>, ok |-> FALSE, msg |-> << >>],
      [bytes |-> << >>, ok |-> TRUE, msg |-> << >>],
      [bytes |-> <<10, 5>>, ok |-> FALSE, msg |-> << >>],
      [bytes |-> <<10, 5>>, ok |-> TRUE, msg |-> << >>],
      Frame(1, 2, Idle80) }

TopicOf(tail) == <<"/", "p", "/">> \o tail

Topic1 == TopicOf(<<"S", "N", "1">>)

Topic2 == TopicOf(<<"S", "N", "2">>)

TopicOther == TopicOf(<<"X", "X", "9">>)

TopicBoth == TopicOf(<<"S", "N", "2", "/", "S", "N", "1">>)

Messages ==
    { [topic |-> Topic1, payload |-> Frame(32, 50, r)] : r \in PackRecords }
    \cup { [topic |-> Topic1, payload |-> p] : p \in NoRecordPayloads }
    \cup { [topic |-> Topic1, payload |-> Frame(254, 21, Display)],
           [topic |-> Topic2,
            payload |-> MaskedFrame(32, 50, WithNum(Chg12500, 0), 291)],
           [topic |-> TopicBoth, payload |-> Frame(32, 50, WithNum(Dsg90, 0))],
           [topic |-> TopicOther, payload |-> Frame(32, 50, WithNum(Idle80, 0))] }

\* serial in topic
Contains(topic, serial) ==
    \E i \in 1..(Len(topic) - Len(serial) + 1) :
        SubSeq(topic, i, i + Len(serial) - 1) = serial

\* FindDevice without the break of line 181: the last match wins
FindDeviceLast(topic) ==
    LET hits == { i \in 1..Len(Devices) : Contains(topic, Devices[i].serial) }
    IN  IF hits = {} THEN 0 ELSE CHOOSE i \in hits : \A j \in hits : i >= j

\* the first configured device whose serial the topic contains, 0 for none
FindDevice(topic) ==
    LET hits == { i \in 1..Len(Devices) : Contains(topic, Devices[i].serial) }
    IN  IF hits = {} THEN 0 ELSE CHOOSE i \in hits : \A j \in hits : i <= j

\* JsonCheck looking for 0x7B 0x7B
JsonCheckBraces(bytes) ==
    IF Len(bytes) = 0 THEN "error"
    ELSE IF bytes[1] # 123 THEN "binary"
    ELSE IF Len(bytes) < 2 THEN "error"
    ELSE IF bytes[2] = 123 THEN "json"
    ELSE "binary"

\* msg.payload[0] == 0x7B and msg.payload[1] == 0x22: "json", "binary", or
\* "error" when an index is out of range
JsonCheck(bytes) ==
    IF Len(bytes) = 0 THEN "error"
    ELSE IF bytes[1] # 123 THEN "binary"
    ELSE IF Len(bytes) < 2 THEN "error"
    ELSE IF bytes[2] = 34 THEN "json"
    ELSE "binary"

\* lines 29-34: the pdata the schema dispatch is given, unmasked when the
\* first inner message has its enc_type set
Dispatched(m) == IF m.enc_type # 0 THEN Unmask(m.pdata, m.seq) ELSE m.pdata

\* lines 23-52, the body of decode's try: [ret, exc], what it returns, or
\* the exception it raises.  ParseFromString raises DecodeError on bytes
\* that do not parse; msg[0] raises IndexError when the frame has no inner
\* message.
DecodeBody(payload) ==
    IF ~payload.ok THEN [ret |-> None, exc |-> "DecodeError"]
    ELSE IF payload.msg = << >> THEN [ret |-> None, exc |-> "IndexError"]
    ELSE LET m      == payload.msg[1]
             schema == SchemaOf(m.cmd_func, m.cmd_id)
             rec    == InnerParse(schema, Dispatched(m))
         IN  IF schema = << >> THEN [ret |-> None, exc |-> ""]
             ELSE IF rec = Malformed THEN [ret |-> None, exc |-> "DecodeError"]
             ELSE [ret |-> rec, exc |-> ""]

\* DecodeCatches with a handler for parse errors only
DecodeCatchesParseErrors(exc) == exc = "DecodeError"

\* lines 54-56: except Exception
DecodeCatches(exc) == TRUE

\* decode raises to its caller
DecodeRaises(payload) ==
    LET body == DecodeBody(payload)
    IN  body.exc # "" /\ ~DecodeCatches(body.exc)

\* EcoFlowProtobufParser.decode: the dict of the first inner message when
\* its (cmd_func, cmd_id) is a known schema, None otherwise and on any error
\* it catches
Decode(payload) ==
    LET body == DecodeBody(payload)
    IN  IF body.exc # "" THEN None ELSE body.ret

\* parse_simple_binary: lines 220-223, and 225-227 for what decode raises
ParseSimpleBinary(payload) ==
    LET data == Decode(payload)
    IN  IF DecodeRaises(payload) THEN None
        ELSE IF Truthy(data) THEN data
        ELSE None


(***************************************************************************)
(* update_ups_data, statement by statement.  The MQTT thread runs it with  *)
(* no lock while the client threads read self.ups_data, so every store to  *)
(* the device's dict is a step of its own.                                 *)
(***************************************************************************)
Fields == << "soc", "vol", "temp", "remainCap", "designCap", "remainTime" >>

\* f != "remainCap" and f != "designCap"
Averaged(f) == f # "remainCap" /\ f # "designCap"

\* the keys lines 263-282 store, in the order they store them
Published ==
    << "battery.charge", "battery.capacity", "battery.capacity.nominal",
       "battery.voltage", "battery.temperature", "battery.runtime",
       "battery.status", "ups.timestamp", "ups.status" >>

MqIdle ==
    [pc |-> "idle", ups_name |-> "", data |-> None, i |-> 0, f |-> 0,
     count |-> 0, battery_status |-> "", ups_status |-> ""]

\* pack.get(f, 0)
PackGet(pack, f) == IF f \in DOMAIN pack THEN pack[f] ELSE 0

\* Store on a dict that all devices share
StoreInEveryDevice(key, value) ==
    ups_data' = [d \in DOMAIN ups_data |->
                   [ups_data[d] EXCEPT !.vals = DictSet(@, key, value)]]

\* ups[key] = value on the dict of the device being updated
Store(key, value) ==
    ups_data' = [ups_data EXCEPT ![mq.ups_name].vals = DictSet(@, key, value)]

\* the call returns (how = "ok") or raises into on_mqtt_message's handler
\* (how = "err"); either way the callback is over
EndUpdate(how) ==
    /\ mq' = MqIdle
    /\ outcome' = [outcome EXCEPT ![mq.ups_name] = how]

\* UInit without the test of line 237: the entry is made anew on every call
UInitResets ==
    /\ mq.pc = "init"
    /\ ups_data' =
         [x \in DOMAIN ups_data \cup {mq.ups_name} |->
            IF x = mq.ups_name THEN [packs |-> << >>, vals |-> EmptyDict]
            ELSE ups_data[x]]
    /\ mq' = [mq EXCEPT !.pc = "upsert"]
    /\ UNCHANGED << running, conn, now, nmsg, outcome, prior, cb, dec,
                 process >>

\* lines 237-238
UInit ==
    /\ mq.pc = "init"
    /\ ups_data' =
         IF mq.ups_name \in DOMAIN ups_data THEN ups_data
         ELSE [x \in DOMAIN ups_data \cup {mq.ups_name} |->
                 IF x = mq.ups_name THEN [packs |-> << >>, vals |-> EmptyDict]
                 ELSE ups_data[x]]
    /\ mq' = [mq EXCEPT !.pc = "upsert"]
    /\ UNCHANGED << running, conn, now, nmsg, outcome, prior, cb, dec,
                 process >>

\* line 240; data["num"] raises KeyError when the record has no pack index
UUpsert ==
    /\ mq.pc = "upsert"
    /\ IF "num" \in DOMAIN mq.data
       THEN /\ ups_data' = [ups_data EXCEPT ![mq.ups_name].packs =
                               PackUpsert(@, mq.data)]
            /\ mq' = [mq EXCEPT !.pc = "zero", !.f = 1]
            /\ UNCHANGED outcome
       ELSE /\ EndUpdate("err")
            /\ UNCHANGED ups_data
    /\ UNCHANGED << running, conn, now, nmsg, prior, cb, dec,
                 process >>

\* UZero with the pack count taken without the pack just stored
UZeroCountsBefore ==
    /\ mq.pc = "zero"
    /\ Store(Fields[mq.f], PyInt(0))
    /\ mq' = IF mq.f < Len(Fields) THEN [mq EXCEPT !.f = @ + 1]
             ELSE [mq EXCEPT !.pc = "sum", !.i = 1, !.f = 1,
                             !.ups_status = "OL", !.battery_status = "CHRG",
                             !.count = Len(ups_data[mq.ups_name].packs) - 1]
    /\ UNCHANGED << running, conn, now, nmsg, outcome, prior, cb, dec,
                 process >>

\* lines 245-250: ups[f] = 0 for one field; after the last one the locals
\* ups_status, battery_status and count are set
UZero ==
    /\ mq.pc = "zero"
    /\ Store(Fields[mq.f], PyInt(0))
    /\ mq' = IF mq.f < Len(Fields) THEN [mq EXCEPT !.f = @ + 1]
             ELSE [mq EXCEPT !.pc = "sum", !.i = 1, !.f = 1,
                             !.ups_status = "OL", !.battery_status = "CHRG",
                             !.count = Len(ups_data[mq.ups_name].packs)]
    /\ UNCHANGED << running, conn, now, nmsg, outcome, prior, cb, dec,
                 process >>

\* StatusAfter with the status following the pack seen last
StatusOfLastPack(status, pack, on) ==
    IF pack["chgDsgState"] = Discharging THEN on
    ELSE IF on = "OB" THEN "OL" ELSE "CHRG"

\* lines 254-256: a discharging pack turns the status to `on`; any other
\* pack leaves it as it is
StatusAfter(status, pack, on) ==
    IF pack["chgDsgState"] = Discharging THEN on ELSE status

\* lines 251-256: ups[f] += pack.get(f, 0) for one field of one pack; after
\* the pack's last field its chgDsgState is read, which raises KeyError when
\* the pack has none
USum ==
    /\ mq.pc = "sum"
    /\ LET pack == ups_data[mq.ups_name].packs[mq.i]
           f    == Fields[mq.f]
           last == mq.i = Len(ups_data[mq.ups_name].packs)
       IN  /\ Store(f, PyInt(ups_data[mq.ups_name].vals[f].n + PackGet(pack, f)))
           /\ IF mq.f < Len(Fields)
              THEN /\ mq' = [mq EXCEPT !.f = @ + 1]
                   /\ UNCHANGED outcome
              ELSE IF "chgDsgState" \notin DOMAIN pack
              THEN EndUpdate("err")
              ELSE /\ mq' = [mq EXCEPT
                        !.pc = IF last THEN "div" ELSE "sum",
                        !.i = IF last THEN 0 ELSE @ + 1,
                        !.f = 1,
                        !.battery_status = StatusAfter(@, pack, "ONBATT"),
                        !.ups_status = StatusAfter(@, pack, "OB")]
                   /\ UNCHANGED outcome
    /\ UNCHANGED << running, conn, now, nmsg, prior, cb, dec,
                 process >>

\* Mean with the division by the pack count left out
MeanNotDivided(total, count) == IF count # 0 THEN TrueDiv(total, 1) ELSE PyInt(0)

\* ups[f] / count if count else 0
Mean(total, count) == IF count # 0 THEN TrueDiv(total, count) ELSE PyInt(0)

\* the next averaged field after position f, Len(Fields) + 1 when none
NextAveraged(f) ==
    LET later == { g \in (f + 1)..Len(Fields) : Averaged(Fields[g]) }
    IN  IF later = {} THEN Len(Fields) + 1
        ELSE CHOOSE g \in later : \A h \in later : g <= h

\* lines 258-260, one averaged field per step
UDiv ==
    /\ mq.pc = "div"
    /\ Store(Fields[mq.f], Mean(ups_data[mq.ups_name].vals[Fields[mq.f]], mq.count))
    /\ mq' = IF NextAveraged(mq.f) <= Len(Fields)
             THEN [mq EXCEPT !.f = NextAveraged(mq.f)]
             ELSE [mq EXCEPT !.pc = "publish", !.f = 1]
    /\ UNCHANGED << running, conn, now, nmsg, outcome, prior, cb, dec,
                 process >>

\* FromMilli dividing by 100
FromMilliBy100(x) == TrueDiv(x, 100)

\* x / 1000.0: milliampere hours to ampere hours, millivolts to volts
FromMilli(x) == TrueDiv(x, 1000)

\* PublishedValue taking remainTime for minutes
PublishedValueFromMinutes(ups, key, t) ==
    IF key = "battery.charge" THEN ups["soc"]
    ELSE IF key = "battery.capacity" THEN FromMilli(ups["remainCap"])
    ELSE IF key = "battery.capacity.nominal" THEN FromMilli(ups["designCap"])
    ELSE IF key = "battery.voltage" THEN FromMilli(ups["vol"])
    ELSE IF key = "battery.temperature" THEN ups["temp"]
    ELSE IF key = "battery.runtime"
    THEN Trunc(Times(ups["remainTime"], 60))
    ELSE IF key = "battery.status" THEN PyStr(mq.battery_status)
    ELSE IF key = "ups.timestamp" THEN PyInt(t)
    ELSE PyStr(mq.ups_status)

\* the value lines 263-282 store under `key`, given the clock reading t
PublishedValue(ups, key, t) ==
    IF key = "battery.charge" THEN ups["soc"]
    ELSE IF key = "battery.capacity" THEN FromMilli(ups["remainCap"])
    ELSE IF key = "battery.capacity.nominal" THEN FromMilli(ups["designCap"])
    ELSE IF key = "battery.voltage" THEN FromMilli(ups["vol"])
    ELSE IF key = "battery.temperature" THEN ups["temp"]
    ELSE IF key = "battery.runtime"
    THEN Trunc(Times(TrueDiv(ups["remainTime"], 100), 3600))
    ELSE IF key = "battery.status" THEN PyStr(mq.battery_status)
    ELSE IF key = "ups.timestamp" THEN PyInt(t)
    ELSE PyStr(mq.ups_status)

\* UPublish pushing the new values to the connected clients when it ends
UPublishPushes ==
    /\ mq.pc = "publish"
    /\ \E t \in now..(T0 + MaxTicks) :
         /\ Published[mq.f] = "ups.timestamp" \/ t = now
         /\ now' = t
         /\ Store(Published[mq.f],
                  PublishedValue(ups_data[mq.ups_name].vals, Published[mq.f], t))
    /\ IF mq.f < Len(Published)
       THEN /\ mq' = [mq EXCEPT !.f = @ + 1]
            /\ UNCHANGED outcome
       ELSE EndUpdate("ok")
    /\ conn' = [c \in DOMAIN conn |->
                 IF conn[c].st = "recv" /\ mq.f = Len(Published)
                 THEN [conn[c] EXCEPT !.ntx = @ + 1] ELSE conn[c]]
    /\ UNCHANGED << running, nmsg, prior, cb, dec, process >>

\* UPublish under a lock that client threads hold while they send
UPublishWaitsForSends ==
    /\ \A c \in AllConns : conn[c].st # "send"
    /\ mq.pc = "publish"
    /\ \E t \in now..(T0 + MaxTicks) :
         /\ Published[mq.f] = "ups.timestamp" \/ t = now
         /\ now' = t
         /\ Store(Published[mq.f],
                  PublishedValue(ups_data[mq.ups_name].vals, Published[mq.f], t))
    /\ IF mq.f < Len(Published)
       THEN /\ mq' = [mq EXCEPT !.f = @ + 1]
            /\ UNCHANGED outcome
       ELSE EndUpdate("ok")
    /\ UNCHANGED << running, conn, nmsg, prior, cb, dec,
                 process >>

\* lines 263-282, one store per step.  The clock is read at line 280 only;
\* it has not gone back since it was last read.
UPublish ==
    /\ mq.pc = "publish"
    /\ \E t \in now..(T0 + MaxTicks) :
         /\ Published[mq.f] = "ups.timestamp" \/ t = now
         /\ now' = t
         /\ Store(Published[mq.f],
                  PublishedValue(ups_data[mq.ups_name].vals, Published[mq.f], t))
    /\ IF mq.f < Len(Published)
       THEN /\ mq' = [mq EXCEPT !.f = @ + 1]
            /\ UNCHANGED outcome
       ELSE EndUpdate("ok")
    /\ UNCHANGED << running, conn, nmsg, prior, cb, dec,
                 process >>

(***************************************************************************)
(* on_mqtt_message: the delivery callback, up to the call of               *)
(* update_ups_data.                                                        *)
(***************************************************************************)
\* Disposition without the test of line 196: update_ups_data is called with
\* whatever parse_simple_binary returned
DispositionUpdatesAlways(msg) ==
    IF FindDevice(msg.topic) = 0 THEN "unknown-device"
    ELSE IF JsonCheck(msg.payload.bytes) = "error" THEN "error"
    ELSE IF JsonCheck(msg.payload.bytes) = "json" THEN "json"
    ELSE "update"

\* what the callback does with a message: "unknown-device", "error" (an
\* exception the outer handler logs), "json", "undecoded", or "update"
Disposition(msg) ==
    IF FindDevice(msg.topic) = 0 THEN "unknown-device"
    ELSE IF JsonCheck(msg.payload.bytes) = "error" THEN "error"
    \* line 188 names `log`, which is not defined: NameError, logged at 203
    ELSE IF JsonCheck(msg.payload.bytes) = "json" THEN "json"
    ELSE IF ParseSimpleBinary(msg.payload) = None THEN "undecoded"
    ELSE "update"

\* the exception the body of the callback raises before it reaches line 193
Raised(msg) ==
    IF FindDevice(msg.topic) = 0 THEN ""
    ELSE IF JsonCheck(msg.payload.bytes) = "error" THEN "IndexError"
    ELSE IF JsonCheck(msg.payload.bytes) = "json" THEN "NameError"
    ELSE ""

\* lines 202-203: except Exception catches whatever the body raises
OuterCatches(exc) == TRUE

\* parse_simple_binary, and with it the decoder, is called (line 195) for a
\* message of disposition disp
DecoderInvoked(disp) == disp \in {"undecoded", "update"}

\* no decode call on its own is under way
DecIdle == [pc |-> "idle"]

\* the exception leaves the callback; it ends the network thread that
\* called it
Escapes(msg) == Raised(msg) # "" /\ ~OuterCatches(Raised(msg))

\* cb is [disp, decoded, raised, escaped, json]: the disposition of the last
\* message, whether the decoder was invoked on it, the exception the body
\* raised ("" for none), whether it left the callback, and whether a
\* callback before the last one ignored a JSON payload
CbNone ==
    [disp |-> "", decoded |-> FALSE, raised |-> "", escaped |-> FALSE,
     json |-> FALSE]

\* the paho network thread delivers one message at a time: a callback
\* begins when the one before it has returned
OnMqttMessage(msg) ==
    /\ mqtt_client = "started"
    /\ mq.pc = "idle"
    /\ nmsg < MaxMsgs
    /\ nmsg' = nmsg + 1
    /\ LET disp == Disposition(msg)
       IN  /\ cb' = [disp |-> disp,
                     decoded |-> DecoderInvoked(disp),
                     raised |-> Raised(msg), escaped |-> Escapes(msg),
                     json |-> cb.json \/ cb.disp = "json"]
           /\ IF disp = "update"
              THEN /\ mq' = [MqIdle EXCEPT
                               !.pc = "init",
                               !.ups_name = Devices[FindDevice(msg.topic)].ups_name,
                               !.data = ParseSimpleBinary(msg.payload)]
                   /\ prior' = ups_data
              ELSE UNCHANGED << mq, prior >>
    /\ mqtt_client' = IF Escapes(msg) THEN "dead" ELSE mqtt_client
    /\ UNCHANGED << ups_data, running, conn, now, outcome, dec, main, stop,
                    nut_server, server_thread >>


(***************************************************************************)
(* The NUT server: start_nut_server, the accept loop and one               *)
(* _handle_nut_client thread per connection.                               *)
(*                                                                         *)
(* conn[c] is [st, nrx, ntx, last, out, afterUnknown, fail]: st is "free"  *)
(* (not yet accepted), "recv" (its thread is in the read loop, blocked in  *)
(* recv), "send" (blocked in send with the reply `out`) or "closed"; nrx   *)
(* counts the commands read and ntx the replies sent; last is the command  *)
(* read last and out the reply sent for it (NoReply when nothing was       *)
(* sent); afterUnknown is history: the command read before `last` began    *)
(* with no verb of the protocol; fail is history: the call whose exception *)
(* ended the thread at lines 350-353 ("" when none did).  In the runs that *)
(* follow the byte stream, buf is what the peer has written and recv has   *)
(* not yet returned (words, and NL for each line end), lines is history:   *)
(* the command lines the peer has written, and replies is history: the     *)
(* replies sent, in order.                                                 *)
(***************************************************************************)
ConnFree ==
    [st |-> "free", nrx |-> 0, ntx |-> 0, last |-> << >>, out |-> NoReply,
     afterUnknown |-> FALSE, fail |-> "", buf |-> << >>, lines |-> << >>,
     replies |-> << >>]

\* the verbs _process_nut_command looks for
Verbs == {"LIST", "GET", "USERNAME", "PASSWORD", "LOGIN", "LOGOUT"}

\* a command that is none of USERNAME, PASSWORD, LOGIN, LOGOUT, LIST, GET
UnknownVerb(cmd) == cmd # << >> /\ cmd[1] \notin Verbs

\* LoopAfter with a command that got no response ending the loop, as an
\* empty read does
LoopEndsOnSilence(response) ==
    IF response = NoReply THEN "closed"
    ELSE IF running THEN "recv" ELSE "closed"

\* line 333, after a turn of the read loop that got `response`: the loop
\* goes on while self.running holds, whatever the response was
LoopAfter(response) == IF running THEN "recv" ELSE "closed"

\* the commands clients send: data.decode().strip(), as words
Commands ==
    { <<"LIST", "UPS">>, <<"LOGIN">>, <<"LOGOUT">>, <<"HELP">>,
      <<"USERNAME", "admin">>, <<"USERNAME", "bob">>,
      <<"PASSWORD", "admin">>, <<"PASSWORD", "secret">>,
      <<"GET", "VAR", "ups1">> }
    \cup { <<"LIST", "VAR", n>> : n \in UpsNames \cup {UnknownUps} }
    \cup { <<"GET", "VAR", "ups1", v>> :
             v \in {"battery.voltage", "battery.current", "soc", "packs"} }
    \cup { <<"GET", "VAR", UnknownUps, "battery.voltage">>,
           <<"GET", "VAR", "ups2", "ups.status">> }

\* start(), lines 430-434: the credentials are fetched and the MQTT client is
\* set up and connected, or one of the two fails and start() raises
SetupMqtt ==
    /\ main = "new" /\ stop = "idle"
    /\ \/ main' = "setup" /\ mqtt_client' = "ready"
       \/ main' = "raised" /\ mqtt_client' = "none"
    /\ UNCHANGED << ups_data, running, mq, conn, now, nmsg, outcome, prior, cb,
                    dec, stop, nut_server, server_thread >>

\* lines 293-305: bind and listen succeed, running is set and the accept
\* thread starts
StartNutServer ==
    /\ main = "setup" /\ stop = "idle"
    /\ nut_server' = "listening"
    /\ running' = TRUE
    /\ server_thread' = "accept"
    /\ main' = "bound"
    /\ UNCHANGED << ups_data, mq, conn, now, nmsg, outcome, prior, cb, dec,
                    stop, mqtt_client >>

\* StartNutServerFails with the exception of lines 307-309 logged and not
\* raised again: start() goes on to loop_start()
StartNutServerSwallows ==
    /\ main = "setup" /\ stop = "idle"
    /\ nut_server' = "socket"
    /\ main' = "bound"
    /\ UNCHANGED << ups_data, running, mq, conn, now, nmsg, outcome, prior, cb,
                    dec, stop, server_thread, mqtt_client >>

\* lines 293-297 and 307-309, then 451-453: bind or listen raises; the
\* exception goes through start_nut_server and start()
StartNutServerFails ==
    /\ main = "setup" /\ stop = "idle"
    /\ nut_server' = "socket"
    /\ main' = "raised"
    /\ UNCHANGED << ups_data, running, mq, conn, now, nmsg, outcome, prior, cb,
                    dec, stop, server_thread, mqtt_client >>

\* line 440: loop_start() starts the MQTT network thread; start() goes on to
\* the loop of line 448
LoopStart ==
    /\ main = "bound" /\ stop = "idle"
    /\ mqtt_client' = "started"
    /\ main' = "serving"
    /\ UNCHANGED << ups_data, running, mq, conn, now, nmsg, outcome, prior, cb,
                    dec, stop, nut_server, server_thread >>

\* stop(), line 458, called when start() has ended or is interrupted in its
\* loop; it then waits in loop_stop() for the MQTT network thread
StopBegin ==
    /\ stop = "idle"
    /\ main \in {"serving", "raised"}
    /\ running' = FALSE
    /\ stop' = "joining"
    /\ main' = IF main = "serving" THEN "cancelled" ELSE main
    /\ UNCHANGED << ups_data, mq, conn, now, nmsg, outcome, prior, cb, dec,
                    nut_server, server_thread, mqtt_client >>

\* lines 460-465: the network thread has ended (a callback in progress runs
\* to its end first); the listening socket is closed.  No client socket is
\* closed.
StopEnd ==
    /\ stop = "joining"
    /\ mq.pc = "idle"
    /\ mqtt_client' = IF mqtt_client = "none" THEN "none" ELSE "stopped"
    /\ nut_server' = IF nut_server = "none" THEN "none" ELSE "closed"
    /\ stop' = "done"
    /\ UNCHANGED << ups_data, running, mq, conn, now, nmsg, outcome, prior, cb,
                    dec, main, server_thread >>

\* lines 313-324: accept returns a client and its thread starts, which
\* enters its read loop (line 333) while running holds and closes the socket
\* at once otherwise; the accept loop tests running again
Accept(c) ==
    /\ server_thread = "accept"
    /\ nut_server = "listening"
    /\ conn[c].st = "free"
    /\ conn' = [conn EXCEPT ![c].st = IF running THEN "recv" ELSE "closed"]
    /\ server_thread' = IF running THEN "accept" ELSE "exited"
    /\ UNCHANGED << ups_data, running, mq, now, nmsg, outcome, prior, cb, dec,
                    main, stop, nut_server, mqtt_client >>

\* lines 315 and 326-328, then 313: accept raises on the closed listening
\* socket; running is false by then and the loop ends
AcceptAborted ==
    /\ server_thread = "accept"
    /\ nut_server = "closed"
    /\ server_thread' = IF running THEN "accept" ELSE "exited"
    /\ UNCHANGED << ups_data, running, mq, conn, now, nmsg, outcome, prior, cb,
                    dec, main, stop, nut_server, mqtt_client >>

\* lines 333-348: one turn of the read loop for a command that arrives
HandleCommand(c, cmd) ==
    /\ conn[c].st = "recv"
    /\ conn[c].nrx < MaxCmds
    /\ LET response == ProcessNutCommand(ups_data, cmd)
       IN  conn' = [conn EXCEPT
                      ![c].nrx = @ + 1,
                      ![c].ntx = IF response # NoReply THEN @ + 1 ELSE @,
                      ![c].afterUnknown = UnknownVerb(conn[c].last),
                      ![c].last = cmd,
                      ![c].out = response,
                      ![c].st = LoopAfter(response)]
    /\ UNCHANGED << ups_data, running, mq, now, nmsg, outcome, prior, cb, dec,
                 process >>

\* lines 335-337 and 353: recv returns b"" when the peer has closed
PeerClose(c) ==
    /\ conn[c].st = "recv"
    /\ conn' = [conn EXCEPT ![c].st = "closed"]
    /\ UNCHANGED << ups_data, running, mq, now, nmsg, outcome, prior, cb, dec,
                 process >>

\* RecvFails with a handler that takes the server down with the connection
RecvFailsStopsServer(c) ==
    /\ conn[c].st = "recv"
    /\ conn' = [conn EXCEPT ![c].st = "closed", ![c].fail = "recv"]
    /\ running' = FALSE
    /\ UNCHANGED << ups_data, mq, now, nmsg, outcome, prior, cb, dec,
                    process >>

\* line 335 raising (a reset connection): lines 350-353 log and close this
\* socket; the thread ends
RecvFails(c) ==
    /\ conn[c].st = "recv"
    /\ conn' = [conn EXCEPT ![c].st = "closed", ![c].fail = "recv"]
    /\ UNCHANGED << ups_data, running, mq, now, nmsg, outcome, prior, cb, dec,
                    process >>

\* line 339 raising on bytes that are no UTF-8 (UnicodeDecodeError): lines
\* 350-353
DecodeFails(c) ==
    /\ conn[c].st = "recv"
    /\ conn' = [conn EXCEPT ![c].st = "closed", ![c].nrx = @ + 1,
                            ![c].fail = "decode"]
    /\ UNCHANGED << ups_data, running, mq, now, nmsg, outcome, prior, cb, dec,
                    process >>

\* lines 335-347: a command is read and processed, and send blocks on a
\* peer that does not read
SendBlocks(c, cmd) ==
    /\ conn[c].st = "recv"
    /\ LET response == ProcessNutCommand(ups_data, cmd)
       IN  /\ response # NoReply
           /\ conn' = [conn EXCEPT
                         ![c].nrx = @ + 1,
                         ![c].afterUnknown = UnknownVerb(conn[c].last),
                         ![c].last = cmd,
                         ![c].out = response,
                         ![c].st = "send"]
    /\ UNCHANGED << ups_data, running, mq, now, nmsg, outcome, prior, cb, dec,
                    process >>

\* line 347 returning at last, then line 333
SendReturns(c) ==
    /\ conn[c].st = "send"
    /\ conn' = [conn EXCEPT ![c].ntx = @ + 1,
                            ![c].st = LoopAfter(conn[c].out)]
    /\ UNCHANGED << ups_data, running, mq, now, nmsg, outcome, prior, cb, dec,
                    process >>

\* line 347 raising (a broken pipe): lines 350-353
SendFails(c) ==
    /\ conn[c].st = "send"
    /\ conn' = [conn EXCEPT ![c].st = "closed", ![c].out = NoReply,
                            ![c].fail = "send"]
    /\ UNCHANGED << ups_data, running, mq, now, nmsg, outcome, prior, cb, dec,
                    process >>

\* the telemetry and the commands of the runs with two clients
ServerMessages ==
    { [topic |-> Topic1, payload |-> Frame(32, 50, WithNum(Dsg90, 0))],
      [topic |-> Topic2,
       payload |-> MaskedFrame(32, 50, WithNum(Chg12500, 0), 291)] }

ServerCommands ==
    { <<"LIST", "UPS">>, <<"HELP">>, <<"LIST", "VAR", "ups1">> }

\* the commands read so far on all connections
TotalRx == conn[1].nrx + conn[2].nrx

(***************************************************************************)
(* The byte stream of a connection: the peer writes command lines, recv    *)
(* returns whatever part of them has arrived.                              *)
(***************************************************************************)
\* the line end
NL == "\n"

\* str.strip() on the data of one read: the line ends (and blanks) at both
\* ends go, those inside stay
RECURSIVE Strip(_)
Strip(data) ==
    IF data = << >> THEN << >>
    ELSE IF Head(data) = NL THEN Strip(Tail(data))
    ELSE IF data[Len(data)] = NL THEN Strip(SubSeq(data, 1, Len(data) - 1))
    ELSE data

\* the command lines peers write in these runs
StreamLines == { <<"LOGIN">>, <<"LIST", "UPS">>, <<"USERNAME", "admin">> }

\* the peer writes one command line, newline-terminated
PeerSends(c, line) ==
    /\ conn[c].st = "recv"
    /\ Len(conn[c].lines) < MaxCmds
    /\ conn' = [conn EXCEPT ![c].buf = @ \o line \o << NL >>,
                            ![c].lines = Append(@, line)]
    /\ UNCHANGED << ups_data, running, mq, now, nmsg, outcome, prior, cb, dec,
                    process >>

\* lines 333-348: one turn of the read loop; recv returns the first n words
\* and line ends of what has arrived, and the whole of it, stripped, is the
\* command
HandleRead(c, n) ==
    /\ conn[c].st = "recv"
    /\ n \in 1..Len(conn[c].buf)
    /\ LET command  == Strip(SubSeq(conn[c].buf, 1, n))
           response == ProcessNutCommand(ups_data, command)
       IN  conn' = [conn EXCEPT
                      ![c].buf = SubSeq(@, n + 1, Len(@)),
                      ![c].nrx = @ + 1,
                      ![c].ntx = IF response # NoReply THEN @ + 1 ELSE @,
                      ![c].afterUnknown = UnknownVerb(conn[c].last),
                      ![c].last = command,
                      ![c].out = response,
                      ![c].replies = IF response # NoReply
                                     THEN Append(@, response) ELSE @,
                      ![c].st = LoopAfter(response)]
    /\ UNCHANGED << ups_data, running, mq, now, nmsg, outcome, prior, cb, dec,
                    process >>

(***************************************************************************)
(* decode on its own: one call on a frame drawn from DecodeFrames.         *)
(*                                                                         *)
(* dec is [pc, frame, pdata, ret, raised]: pc is "call" before the call    *)
(* and "done" after it; pdata is the payload the schema dispatch of lines  *)
(* 36-46 was given, ret what decode returned, raised whether it raised.    *)
(***************************************************************************)
\* sequence numbers: below, at and above one byte, and negative ones
Seqs == {0, 1, 165, 255, 256, 291, -1, -86}

\* byte values raw pdata strings are made of
RawBytes == {0, 8, 127, 128, 255}

\* the byte strings over RawBytes of length 0 .. n
RECURSIVE RawStrings(_)
RawStrings(n) ==
    IF n = 0 THEN { << >> }
    ELSE RawStrings(n - 1)
         \cup { Append(b, x) : b \in RawStrings(n - 1), x \in RawBytes }

\* (cmd_func, cmd_id) pairs: the two schemas and pairs that are none
Pairs == { <<32, 50>>, <<254, 21>>, <<1, 2>>, <<32, 21>>, <<254, 50>> }

PdataInputs ==
    RawStrings(MaxRawLen)
    \cup { Wire(HeartbeatSchema, WithNum(Dsg90, 1)),
           Wire(HeartbeatSchema, WithNum(Chg12500, 0)),
           Wire(DisplaySchema, Display) }

InnerMessages ==
    { [enc_type |-> e, seq |-> q, cmd_func |-> pr[1], cmd_id |-> pr[2],
       pdata |-> b] :
        e \in {0, 1}, q \in Seqs, pr \in Pairs, b \in PdataInputs }

DecodeFrames ==
    { [bytes |-> << >>, ok |-> TRUE, msg |-> << >>],
      [bytes |-> <<10>>, ok |-> FALSE, msg |-> << >>],
      [bytes |-> <<10, 5>>, ok |-> TRUE,
       msg |-> Frame(1, 2, Idle80).msg \o Frame(32, 50, WithNum(Idle80, 0)).msg] }
    \cup { [bytes |-> <<10, 5>>, ok |-> TRUE, msg |-> << m >>] :
             m \in InnerMessages }
    \cup { MaskedFrame(32, 50, WithNum(Dsg90, 1), q) : q \in Seqs }

\* what the serving side of the model holds
serving ==
    << ups_data, running, mq, conn, now, nmsg, outcome, prior, cb, process >>

\* real_ecoflow_parser.py lines 19-56: the call
DecodeCall ==
    /\ dec.pc = "call"
    /\ dec' = [dec EXCEPT
                 !.pc = "done",
                 !.pdata = IF dec.frame.ok /\ dec.frame.msg # << >>
                           THEN Dispatched(dec.frame.msg[1]) ELSE << >>,
                 !.ret = Decode(dec.frame),
                 !.raised = DecodeRaises(dec.frame)]
    /\ UNCHANGED serving

(***************************************************************************)
(* The specification.                                                      *)
(***************************************************************************)
Init ==
    /\ ups_data = EmptyDict
    /\ running = FALSE
    /\ mq = MqIdle
    /\ conn = [c \in AllConns |-> ConnFree]
    /\ now = T0
    /\ nmsg = 0
    /\ outcome = [n \in UpsNames |-> "none"]
    /\ prior = EmptyDict
    /\ cb = CbNone
    /\ dec = DecIdle
    /\ main = "new"
    /\ stop = "idle"
    /\ nut_server = "none"
    /\ server_thread = "none"
    /\ mqtt_client = "none"

\* the serving phase: one client connection, no shutdown
Next ==
    \/ SetupMqtt
    \/ StartNutServer
    \/ StartNutServerFails
    \/ LoopStart
    \/ \E msg \in Messages : OnMqttMessage(msg)
    \/ UInit
    \/ UUpsert
    \/ UZero
    \/ USum
    \/ UDiv
    \/ UPublish
    \/ \E c \in Conns : Accept(c)
    \/ \E c \in Conns, cmd \in Commands : HandleCommand(c, cmd)
    \/ \E c \in Conns : PeerClose(c)

Spec == Init /\ [][Next]_vars

\* decode alone, on every frame of DecodeFrames
(***************************************************************************)
(* The whole life of the process with two clients: startup and its         *)
(* failures, telemetry, the connections and their failures, stop().  The   *)
(* threads of the process are scheduled fairly; nothing is assumed of the  *)
(* peers or of the broker.                                                 *)
(***************************************************************************)
UpdateStep == UInit \/ UUpsert \/ UZero \/ USum \/ UDiv \/ UPublish

NextServer ==
    \/ SetupMqtt
    \/ StartNutServer
    \/ StartNutServerFails
    \/ LoopStart
    \/ StopBegin
    \/ StopEnd
    \/ AcceptAborted
    \/ \E msg \in ServerMessages : nmsg < MaxServerMsgs /\ OnMqttMessage(msg)
    \/ UpdateStep
    \/ \E c \in AllConns : Accept(c)
    \/ \E c \in AllConns, cmd \in ServerCommands :
         TotalRx < MaxCmds /\ HandleCommand(c, cmd)
    \/ \E c \in AllConns, cmd \in ServerCommands :
         TotalRx < MaxCmds /\ SendBlocks(c, cmd)
    \/ \E c \in AllConns : SendReturns(c)
    \/ \E c \in AllConns : SendFails(c)
    \/ \E c \in AllConns : RecvFails(c)
    \/ \E c \in AllConns : TotalRx < MaxCmds /\ DecodeFails(c)
    \/ \E c \in AllConns : PeerClose(c)

SpecServer ==
    /\ Init
    /\ [][NextServer]_vars
    /\ WF_vars(StopEnd)
    /\ WF_vars(AcceptAborted)
    /\ WF_vars(UpdateStep)

\* one client and its byte stream, no telemetry; a line is at most two
\* words and its line end
NextStream ==
    \/ SetupMqtt
    \/ StartNutServer
    \/ StartNutServerFails
    \/ LoopStart
    \/ \E c \in Conns : Accept(c)
    \/ \E c \in Conns, line \in StreamLines : PeerSends(c, line)
    \/ \E c \in Conns, n \in 1..(3 * MaxCmds) : HandleRead(c, n)
    \/ \E c \in Conns : conn[c].buf = << >> /\ PeerClose(c)

SpecStream == Init /\ [][NextStream]_vars

InitDecode ==
    /\ ups_data = EmptyDict
    /\ running = FALSE
    /\ mq = MqIdle
    /\ conn = [c \in AllConns |-> ConnFree]
    /\ now = T0
    /\ nmsg = 0
    /\ outcome = [n \in UpsNames |-> "none"]
    /\ prior = EmptyDict
    /\ cb = CbNone
    /\ main = "new"
    /\ stop = "idle"
    /\ nut_server = "none"
    /\ server_thread = "none"
    /\ mqtt_client = "none"
    /\ dec \in { [pc |-> "call", frame |-> f, pdata |-> << >>, ret |-> None,
                   raised |-> FALSE] : f \in DecodeFrames }

NextDecode == DecodeCall

SpecDecode == InitDecode /\ [][NextDecode]_vars


(***************************************************************************)
(* Properties.  What they share.                                           *)
(***************************************************************************)
\* the sum of field f over a pack sequence, a pack without f counting 0
RECURSIVE SumOf(_, _)
SumOf(packs, f) ==
    IF packs = << >> THEN 0
    ELSE PackGet(Head(packs), f) + SumOf(Tail(packs), f)

\* an update_ups_data call for device d is in progress
Updating(d) == mq.pc # "idle" /\ mq.ups_name = d

\* the last update_ups_data call for d ran to completion and none is in
\* progress for it
Settled(d) == d \in DOMAIN ups_data /\ outcome[d] = "ok" /\ ~Updating(d)

\* the float x equals num / den
IsRatio(x, num, den) == x.k = "float" /\ x.n * den = num * x.d

\* some pack of the sequence is discharging
AnyDischarging(packs) ==
    \E i \in 1..Len(packs) : PackGet(packs[i], "chgDsgState") = Discharging

\* the line of a LIST VAR reply that carries variable var
VarLine(reply, var) ==
    LET at == { i \in 1..Len(reply) : Len(reply[i]) = 4 /\ reply[i][3] = var }
    IN  IF at = {} THEN << >> ELSE reply[CHOOSE i \in at : TRUE]

\* a reply without its ups.timestamp line
StripTime(reply) ==
    SelectSeq(reply, LAMBDA l : ~(Len(l) = 4 /\ l[3] = "ups.timestamp"))

\* the aggregate a completed update leaves for a pack sequence, by the
\* definition of the aggregate: means of soc, vol, temp and remainTime,
\* sums of the capacities, on-battery when any pack is discharging
Aggregate(packs, t) ==
    LET n == Len(packs)
        dsg == AnyDischarging(packs)
    IN  [key \in { Published[i] : i \in 1..Len(Published) } |->
           IF key = "battery.charge" THEN PyFloat(SumOf(packs, "soc"), n)
           ELSE IF key = "battery.capacity"
           THEN PyFloat(SumOf(packs, "remainCap"), 1000)
           ELSE IF key = "battery.capacity.nominal"
           THEN PyFloat(SumOf(packs, "designCap"), 1000)
           ELSE IF key = "battery.voltage" THEN PyFloat(SumOf(packs, "vol"), 1000 * n)
           ELSE IF key = "battery.temperature" THEN PyFloat(SumOf(packs, "temp"), n)
           ELSE IF key = "battery.runtime"
           THEN PyInt((SumOf(packs, "remainTime") * 36) \div n)
           ELSE IF key = "battery.status"
           THEN PyStr(IF dsg THEN "ONBATT" ELSE "CHRG")
           ELSE IF key = "ups.timestamp" THEN PyInt(t)
           ELSE PyStr(IF dsg THEN "OB" ELSE "OL")]

(***************************************************************************)
(* C1.                                                                     *)
(***************************************************************************)
\* the pack sequence of d once the update in progress has stored its record
PacksAfter(d) ==
    PackUpsert(IF d \in DOMAIN prior THEN prior[d].packs ELSE << >>, mq.data)

\* the update in progress will run to completion: its record has a pack
\* index and every pack of the device carries a charge/discharge state
WillComplete(d) ==
    /\ "num" \in DOMAIN mq.data
    /\ \A i \in 1..Len(PacksAfter(d)) : "chgDsgState" \in DOMAIN PacksAfter(d)[i]

\* self.ups_data as the update in progress leaves it when it completes
DataAfter(d) ==
    [x \in DOMAIN prior \cup {d} |->
       IF x = d THEN [packs |-> PacksAfter(d), vals |-> Aggregate(PacksAfter(d), now)]
       ELSE prior[x]]

\* the replies a read of d may get while an update of d is in progress: the
\* one from before the update, or the one from after it
WholeReplies(d, cmd) ==
    { StripTime(ProcessNutCommand(prior, cmd)) }
    \cup (IF WillComplete(d) THEN { StripTime(ProcessNutCommand(DataAfter(d), cmd)) }
          ELSE {})

\* the commands that read device d
ReadsOf(d) == { <<"LIST", "VAR", d>>, <<"GET", "VAR", d, "battery.voltage">> } \cap Commands

\* C1: a LIST VAR or GET VAR of a device handled while update_ups_data runs
\* for that device replies with the values of one completed aggregate, the
\* one from before the update or the one from after it: never a mixture,
\* never an entry that has no aggregate yet.
C1_ReadsSeeWholeAggregate ==
    [][\A c \in Conns : \A d \in UpsNames : \A cmd \in ReadsOf(d) :
         (Updating(d) /\ HandleCommand(c, cmd))
            => StripTime(conn'[c].out) \in WholeReplies(d, cmd)]_vars

(***************************************************************************)
(* C2.                                                                     *)
(***************************************************************************)
\* the pack map of the scenario: pack 0 at 80 %, 12000 mV, idle, then pack 1
\* at 90 %, 13000 mV, discharging
ScenarioPacks == << WithNum(Idle80, 0), WithNum(Dsg90, 1) >>

\* C2: once an update of a device has completed, its charge, voltage and
\* temperature are the arithmetic means over all packs of its pack map
\* (voltage in volts) and its remaining and design capacity are the sums
\* over them (in ampere hours); pack 0 {80 %, 12000 mV, idle} followed by
\* pack 1 {90 %, 13000 mV, discharging} is served as charge 85.0, voltage
\* 12.5, ONBATT, OB.
C2_MeansAndSums ==
    \A d \in UpsNames : Settled(d) =>
        LET packs == ups_data[d].packs
            vals  == ups_data[d].vals
            n     == Len(packs)
            reply == GetUpsVariables(ups_data, d)
        IN  /\ n >= 1
            /\ IsRatio(vals["battery.charge"], SumOf(packs, "soc"), n)
            /\ IsRatio(vals["battery.voltage"], SumOf(packs, "vol"), 1000 * n)
            /\ IsRatio(vals["battery.temperature"], SumOf(packs, "temp"), n)
            /\ IsRatio(vals["battery.capacity"], SumOf(packs, "remainCap"), 1000)
            /\ IsRatio(vals["battery.capacity.nominal"], SumOf(packs, "designCap"), 1000)
            /\ packs = ScenarioPacks =>
                 /\ VarLine(reply, "battery.charge")[4] = "85.0"
                 /\ VarLine(reply, "battery.voltage")[4] = "12.5"
                 /\ VarLine(reply, "battery.status")[4] = "ONBATT"
                 /\ VarLine(reply, "ups.status")[4] = "OB"

\* the scenario has run: both updates of ups1 completed
C2_Witness == Settled("ups1") /\ ups_data["ups1"].packs = ScenarioPacks

(***************************************************************************)
(* C3.                                                                     *)
(***************************************************************************)
\* C3: once an update of a device has completed, its battery status and
\* device status are ONBATT and OB exactly when some pack of its pack map is
\* discharging, whatever the other packs report and in whatever order the
\* packs arrived, and CHRG and OL otherwise.
C3_OnBatteryIffAnyDischarging ==
    \A d \in UpsNames : Settled(d) =>
        LET vals == ups_data[d].vals
            dsg  == AnyDischarging(ups_data[d].packs)
        IN  /\ vals["battery.status"] = PyStr(IF dsg THEN "ONBATT" ELSE "CHRG")
            /\ vals["ups.status"] = PyStr(IF dsg THEN "OB" ELSE "OL")

\* a record has replaced the only discharging pack of ups1 by one that is
\* not discharging, and ups1 is back to CHRG / OL
C3_Witness ==
    /\ Settled("ups1")
    /\ "ups1" \in DOMAIN prior
    /\ Len(prior["ups1"].packs) = 1
    /\ AnyDischarging(prior["ups1"].packs)
    /\ DictGet(prior["ups1"].vals, "ups.status", PyStr("")) = PyStr("OB")
    /\ Len(ups_data["ups1"].packs) = 1
    /\ ups_data["ups1"].vals["ups.status"] = PyStr("OL")
    /\ ups_data["ups1"].vals["battery.status"] = PyStr("CHRG")


(***************************************************************************)
(* C4.                                                                     *)
(***************************************************************************)
\* cmd is LIST VAR name, or GET VAR name <var>
Targets(cmd, name) ==
    \/ cmd = <<"LIST", "VAR", name>>
    \/ Len(cmd) = 4 /\ cmd[1] = "GET" /\ cmd[2] = "VAR" /\ cmd[3] = name

\* reply lists the nine variables of device d between BEGIN and END, each
\* with its default
IsDefaultList(reply, d) ==
    /\ Len(reply) = Len(ListedVars) + 2
    /\ reply[1] = <<"BEGIN", "LIST", "VAR">>
    /\ reply[Len(reply)] = <<"END", "LIST", "VAR">>
    /\ \A i \in 1..Len(ListedVars) :
         /\ SubSeq(reply[i + 1], 1, 3) = <<"VAR", d, ListedVars[i]>>
         /\ reply[i + 1][4] \in
              (IF ListedVars[i] \in {"battery.status", "ups.status"}
               THEN {"UNKNOWN"} ELSE {"0", "0.0"})

\* reply is one value line for variable cmd[4] of device cmd[3]
IsValueLine(reply, cmd) ==
    Len(reply) = 1 /\ Len(reply[1]) = 4 /\ SubSeq(reply[1], 1, 3) = <<"VAR", cmd[3], cmd[4]>>

\* C4: for a configured device no update has been applied to, LIST VAR
\* replies with the list of the nine variables at their defaults and GET VAR
\* with a value line, never with an error.
C4_DefaultsBeforeTelemetry ==
    \A c \in Conns : \A d \in UpsNames :
        (outcome[d] = "none" /\ ~Updating(d) /\ Targets(conn[c].last, d)) =>
            IF Len(conn[c].last) = 3 THEN IsDefaultList(conn[c].out, d)
            ELSE IsValueLine(conn[c].out, conn[c].last)

(***************************************************************************)
(* C5.                                                                     *)
(***************************************************************************)
\* C5: in every reachable state the devices that hold state are configured
\* devices, and LIST VAR and GET VAR for a name that is not configured are
\* answered with exactly ERR UNKNOWN-UPS.
C5_UnknownUpsIsError ==
    /\ DOMAIN ups_data \subseteq UpsNames
    /\ \A cmd \in Commands : \A n \in {UnknownUps} \ UpsNames :
         Targets(cmd, n) =>
            /\ ProcessNutCommand(ups_data, cmd) = << <<"ERR", "UNKNOWN-UPS">> >>
            /\ \A c \in Conns :
                 conn[c].last = cmd => conn[c].out = << <<"ERR", "UNKNOWN-UPS">> >>

\* a client has asked for a variable of an unconfigured device after
\* telemetry has been ingested
C5_Witness ==
    /\ Settled("ups1")
    /\ \E c \in Conns :
         /\ conn[c].last = <<"GET", "VAR", UnknownUps, "battery.voltage">>
         /\ conn[c].out = << <<"ERR", "UNKNOWN-UPS">> >>

(***************************************************************************)
(* C6.                                                                     *)
(***************************************************************************)
\* reply lists every configured device once, in configuration order, between
\* BEGIN and END
IsFullUpsList(reply) ==
    /\ Len(reply) = Len(Devices) + 2
    /\ reply[1] = <<"BEGIN", "LIST", "UPS">>
    /\ reply[Len(reply)] = <<"END", "LIST", "UPS">>
    /\ \A i \in 1..Len(Devices) : reply[i + 1][1] = Devices[i].ups_name

\* C6: in every reachable state LIST UPS is answered with the list of every
\* configured device exactly once, in configuration order, whichever devices
\* have telemetry and whatever was sent before.
C6_ListUpsAllInOrder ==
    /\ IsFullUpsList(ProcessNutCommand(ups_data, <<"LIST", "UPS">>))
    /\ \A c \in Conns :
         conn[c].last = <<"LIST", "UPS">> => IsFullUpsList(conn[c].out)

\* LIST UPS was answered as the second command of a connection while only
\* one of the two devices had telemetry
C6_Witness ==
    /\ DOMAIN ups_data = {"ups2"}
    /\ \E c \in Conns :
         /\ conn[c].nrx = 2
         /\ conn[c].last = <<"LIST", "UPS">>
         /\ Len(conn[c].out) = 4

(***************************************************************************)
(* C7.                                                                     *)
(***************************************************************************)
\* C7: USERNAME with any name, PASSWORD with any password, LOGIN and LOGOUT
\* are always answered OK.
C7_AuthAlwaysOK ==
    \A c \in Conns :
        (conn[c].last # << >>
           /\ conn[c].last[1] \in {"USERNAME", "PASSWORD", "LOGIN", "LOGOUT"})
        => conn[c].out = << <<"OK">> >>

(***************************************************************************)
(* C8.                                                                     *)
(***************************************************************************)
\* C8: for a device that has telemetry, GET VAR with a variable name outside
\* the nine listed ones is answered with the value 0; no other key of the
\* device's state reaches a client.
C8_OtherVariablesAreZero ==
    [][\A c \in Conns : \A cmd \in Commands : \A d \in UpsNames :
         ( /\ Settled(d)
           /\ Len(cmd) = 4 /\ Targets(cmd, d)
           /\ \A i \in 1..Len(ListedVars) : cmd[4] # ListedVars[i]
           /\ HandleCommand(c, cmd) )
         => conn'[c].out = << <<"VAR", d, cmd[4], "0">> >>]_vars

(***************************************************************************)
(* C9.                                                                     *)
(***************************************************************************)
\* a command in one of the forms _process_nut_command answers
Recognised(cmd) ==
    \/ cmd \in { <<"LIST", "UPS">>, <<"LOGIN">>, <<"LOGOUT">>,
                 <<"USERNAME", "admin">>, <<"PASSWORD", "admin">> }
    \/ Len(cmd) = 3 /\ cmd[1] = "LIST" /\ cmd[2] = "VAR"
    \/ Len(cmd) = 4 /\ cmd[1] = "GET" /\ cmd[2] = "VAR"

\* C9: a command that is none of USERNAME, PASSWORD, LOGIN, LOGOUT, LIST UPS,
\* LIST VAR, GET VAR gets no reply and leaves the connection in its read
\* loop; the recognised command that follows it on the connection is
\* answered.
C9_UnknownCommandIgnored ==
    [][\A c \in Conns : \A cmd \in Commands :
         (conn'[c].last = cmd /\ HandleCommand(c, cmd)) =>
            /\ UnknownVerb(cmd) =>
                 /\ conn'[c].out = << >>
                 /\ conn'[c].ntx = conn[c].ntx
                 /\ running => conn'[c].st = "recv"
            /\ (UnknownVerb(conn[c].last) /\ Recognised(cmd)) =>
                 /\ conn'[c].out # << >>
                 /\ conn'[c].ntx = conn[c].ntx + 1]_vars

\* a connection has answered a command right after ignoring an unknown one
C9_Witness ==
    \E c \in Conns :
        /\ conn[c].afterUnknown
        /\ conn[c].nrx = 2
        /\ conn[c].ntx = 1
        /\ conn[c].last = <<"LIST", "UPS">>
        /\ conn[c].out # << >>
        /\ conn[c].st = "recv"

(***************************************************************************)
(* C10.                                                                    *)
(***************************************************************************)
\* text is a number with one decimal digit that lies within half a tenth of
\* total / (1000 * n): the mean of n pack voltages, in volts
IsVoltsText(text, total, n) ==
    \E t \in { total \div (100 * n), total \div (100 * n) + 1 } :
        /\ text = ToString(t \div 10) \o "." \o ToString(t % 10)
        /\ 2 * (10 * total - t * 1000 * n) <= 1000 * n
        /\ 2 * (t * 1000 * n - 10 * total) <= 1000 * n

\* C10: once an update of device D has completed and no update is in
\* progress, GET VAR D battery.voltage is answered with the mean pack voltage
\* of D's pack map in volts with one decimal digit; a single pack at
\* 12500 mV gives 12.5.
C10_VoltageInVolts ==
    [][\A c \in Conns : \A d \in UpsNames :
         ( /\ Settled(d) /\ mq.pc = "idle"
           /\ HandleCommand(c, <<"GET", "VAR", d, "battery.voltage">>) )
         => LET packs == ups_data[d].packs
                out   == conn'[c].out
            IN  /\ IsValueLine(out, <<"GET", "VAR", d, "battery.voltage">>)
                /\ IsVoltsText(out[1][4], SumOf(packs, "vol"), Len(packs))
                /\ (Len(packs) = 1 /\ PackGet(packs[1], "vol") = 12500)
                     => out[1][4] = "12.5"]_vars

\* the voltage of ups1, a single pack at 12500 mV, was served as 12.5
C10_Witness ==
    /\ Settled("ups1") /\ mq.pc = "idle"
    /\ ups_data["ups1"].packs = << WithNum(Chg12500, 0) >>
    /\ \E c \in Conns :
         /\ conn[c].last = <<"GET", "VAR", "ups1", "battery.voltage">>
         /\ conn[c].out = << <<"VAR", "ups1", "battery.voltage", "12.5">> >>


(***************************************************************************)
(* C11.                                                                    *)
(***************************************************************************)
\* the (cmd_func, cmd_id) of the first inner message of a frame
PairOf(frame) == << frame.msg[1].cmd_func, frame.msg[1].cmd_id >>

\* C11: decode never raises to its caller; it returns a record only for a
\* frame that parses and whose first inner message is a (32, 50) or a
\* (254, 21) message; for a frame that does not parse, a frame with no inner
\* message and every other pair it returns none.
C11_DecodeNeverRaises ==
    dec.pc = "done" =>
        /\ ~dec.raised
        /\ dec.ret # None =>
             /\ dec.frame.ok
             /\ dec.frame.msg # << >>
             /\ PairOf(dec.frame) \in { <<32, 50>>, <<254, 21>> }
        /\ ( \/ ~dec.frame.ok
             \/ dec.frame.msg = << >>
             \/ PairOf(dec.frame) \notin { <<32, 50>>, <<254, 21>> } )
           => dec.ret = None

\* decode was called on a frame that parses and has no inner message, and
\* returned none
C11_Witness ==
    /\ dec.pc = "done"
    /\ dec.frame.ok /\ dec.frame.msg = << >>
    /\ dec.ret = None /\ ~dec.raised

(***************************************************************************)
(* C19.                                                                    *)
(***************************************************************************)
\* bit k of the byte x
Bit(x, k) == (x \div (2 ^ k)) % 2

\* the byte r is p XOR q, bit by bit
IsXorByte(r, p, q) ==
    /\ r \in 0..255
    /\ \A k \in 0..7 : Bit(r, k) = (Bit(p, k) + Bit(q, k)) % 2

\* C19: when the first inner message has its encryption flag set, every byte
\* the decoder goes on with is the payload byte XOR (sequence number mod
\* 256), a byte again, and masking those bytes once more with the same
\* sequence number gives the payload back; when the flag is not set the
\* payload is left as it is.
C19_MaskSelfInverse ==
    (dec.pc = "done" /\ dec.frame.ok /\ dec.frame.msg # << >>) =>
        LET m == dec.frame.msg[1]
        IN  IF m.enc_type # 0
            THEN /\ Len(dec.pdata) = Len(m.pdata)
                 /\ \A i \in 1..Len(m.pdata) :
                      IsXorByte(dec.pdata[i], m.pdata[i], m.seq % 256)
                 /\ Unmask(dec.pdata, m.seq) = m.pdata
            ELSE dec.pdata = m.pdata

\* a masked heartbeat with a sequence number above one byte was unmasked and
\* decoded to its record
C19_Witness ==
    /\ dec.pc = "done"
    /\ dec.frame = MaskedFrame(32, 50, WithNum(Dsg90, 1), 291)
    /\ dec.pdata # dec.frame.msg[1].pdata
    /\ dec.ret = WithNum(Dsg90, 1)


(***************************************************************************)
(* C12.                                                                    *)
(***************************************************************************)
\* C12: the delivery of a message the decoder returns none for changes no
\* device's pack map, aggregate or timestamp and not the set of devices
\* holding state, and begins no update; and device state only ever changes
\* while an update is in progress.
C12_UndecodedIsDropped ==
    [][ /\ \A msg \in Messages :
             ( /\ nmsg' = nmsg + 1
               /\ FindDevice(msg.topic) # 0
               /\ JsonCheck(msg.payload.bytes) = "binary"
               /\ Decode(msg.payload) = None
               /\ OnMqttMessage(msg) )
             => (ups_data' = ups_data /\ mq' = mq /\ mq.pc = "idle")
        /\ mq.pc = "idle" => ups_data' = ups_data ]_vars

\* after a completed update of ups1 a message was delivered that the decoder
\* returned none for
C12_Witness ==
    /\ nmsg = 2
    /\ cb.disp = "undecoded" /\ cb.decoded
    /\ mq.pc = "idle"
    /\ Settled("ups1")
    /\ ups_data["ups1"].packs = << WithNum(Dsg90, 1) >>

(***************************************************************************)
(* C13.                                                                    *)
(***************************************************************************)
\* device i is the first device in configuration order whose serial the
\* topic contains
FirstMatch(topic, i) ==
    /\ Contains(topic, Devices[i].serial)
    /\ \A j \in 1..(i - 1) : ~Contains(topic, Devices[j].serial)

\* C13: the delivery of a message whose topic contains no configured serial
\* invokes no decoder, begins no update and changes no device state; an
\* update a message begins is for the first configured device whose serial
\* its topic contains, and an update changes the state of that device only.
C13_AttributedByTopic ==
    [][ /\ \A msg \in Messages :
             (nmsg' = nmsg + 1 /\ OnMqttMessage(msg)) =>
                IF \A i \in 1..Len(Devices) : ~Contains(msg.topic, Devices[i].serial)
                THEN ~cb'.decoded /\ ups_data' = ups_data /\ mq' = mq
                ELSE mq'.pc # "idle" =>
                       \E i \in 1..Len(Devices) :
                           /\ FirstMatch(msg.topic, i)
                           /\ mq'.ups_name = Devices[i].ups_name
        /\ \A d \in DOMAIN ups_data' :
             (d \notin DOMAIN ups_data \/ ups_data'[d] # ups_data[d])
             => d = mq.ups_name ]_vars

\* a message on a topic with no configured serial was dropped after an
\* update of ups2, and a message whose topic holds both serials, that of
\* ups2 first, was attributed to ups1
C13_Witness ==
    \/ /\ nmsg = 2
       /\ cb.disp = "unknown-device" /\ ~cb.decoded
       /\ Settled("ups2")
    \/ /\ nmsg = 1
       /\ cb.disp = "update"
       /\ mq.ups_name = "ups1"
       /\ mq.data = WithNum(Dsg90, 0)
       /\ "ups1" \notin DOMAIN ups_data

(***************************************************************************)
(* C14.                                                                    *)
(***************************************************************************)
\* C14: the delivery of a payload that begins 0x7B 0x22 invokes no decoder,
\* changes no device state, begins no update, lets no exception out of the
\* callback and leaves the MQTT loop delivering.
C14_JsonIgnored ==
    [][ \A msg \in Messages :
          ( /\ nmsg' = nmsg + 1
            /\ Len(msg.payload.bytes) >= 2
            /\ msg.payload.bytes[1] = 123 /\ msg.payload.bytes[2] = 34
            /\ OnMqttMessage(msg) )
          => /\ ~cb'.decoded /\ ~cb'.escaped
             /\ ups_data' = ups_data /\ mq' = mq
             /\ mqtt_client' = "started" ]_vars

\* a JSON payload was ignored and the binary message after it was decoded
\* and its update ran to completion
C14_Witness ==
    /\ cb.json
    /\ cb.disp = "update" /\ cb.decoded
    /\ Settled("ups1")


(***************************************************************************)
(* C20.                                                                    *)
(***************************************************************************)
\* reply lists the numeric variables of d as zero and no status as on
\* battery
IsZeroList(reply, d) ==
    /\ Len(reply) = Len(ListedVars) + 2
    /\ \A i \in 1..Len(ListedVars) :
         /\ SubSeq(reply[i + 1], 1, 3) = <<"VAR", d, ListedVars[i]>>
         /\ IF ListedVars[i] \in {"battery.status", "ups.status"}
            THEN reply[i + 1][4] \notin {"ONBATT", "OB"}
            ELSE reply[i + 1][4] \in {"0", "0.0"}

\* C20: whenever the averaged fields are being divided the divisor is the
\* number of packs in the device's map and it is not zero; a device whose
\* map holds no pack is served with 0 for every numeric variable and with a
\* status that is not on-battery.
C20_NoDivisionByZero ==
    /\ mq.pc = "div" =>
         /\ mq.count = Len(ups_data[mq.ups_name].packs)
         /\ mq.count > 0
    /\ \A d \in DOMAIN ups_data :
         ups_data[d].packs = << >> =>
            /\ IsZeroList(GetUpsVariables(ups_data, d), d)
            /\ \A c \in Conns :
                 (conn[c].last = <<"LIST", "VAR", d>> /\ Len(conn[c].out) > 1)
                 => IsZeroList(conn[c].out, d)

\* ups1 holds state with no pack (its only message had no pack index) and a
\* client was served its variables
C20_Witness ==
    /\ "ups1" \in DOMAIN ups_data
    /\ ups_data["ups1"].packs = << >>
    /\ outcome["ups1"] = "err"
    /\ \E c \in Conns :
         /\ conn[c].last = <<"LIST", "VAR", "ups1">>
         /\ IsZeroList(conn[c].out, "ups1")


(***************************************************************************)
(* C17.                                                                    *)
(***************************************************************************)
\* C17: when bind or listen has failed (the socket was made and never
\* listens), start() has raised, running is false, there is no accept
\* thread, the MQTT network loop was never started and no telemetry message
\* was handled; and the network loop only ever runs with a listener that
\* was bound.
C17_BindFailureIsFatal ==
    /\ nut_server = "socket" =>
         /\ main = "raised"
         /\ ~running
         /\ server_thread = "none"
         /\ mqtt_client \in {"ready", "stopped"}
         /\ nmsg = 0 /\ mq.pc = "idle" /\ ups_data = EmptyDict
    /\ (nut_server \in {"socket", "closed"} /\ server_thread = "none") =>
         /\ main = "raised"
         /\ mqtt_client \in {"ready", "stopped"}
         /\ nmsg = 0
    /\ mqtt_client = "started" =>
         /\ nut_server = "listening"
         /\ server_thread # "none"

\* bind failed, start() raised and stop() ran to its end on the way out
C17_Witness ==
    /\ main = "raised"
    /\ server_thread = "none"
    /\ nut_server = "closed"
    /\ stop = "done"
    /\ mqtt_client = "stopped"


(***************************************************************************)
(* C15.                                                                    *)
(***************************************************************************)
\* C15: a step in which recv, decode or send fails on connection c closes c
\* and changes nothing else: not another connection, not the accept loop or
\* the listening socket, not running, not the device states nor an update
\* in progress.  While the server has not been stopped, once a connection
\* has failed the accept loop is still accepting on the listening socket,
\* and every other connection in its read loop can have any command read
\* and answered.
C15_FailureClosesOnlyItsConnection ==
    /\ [][\A c \in AllConns :
            conn'[c].fail # conn[c].fail =>
               /\ conn[c].st \in {"recv", "send"}
               /\ conn'[c].st = "closed"
               /\ \A o \in AllConns \ {c} : conn'[o] = conn[o]
               /\ ups_data' = ups_data /\ mq' = mq /\ outcome' = outcome
               /\ running' = running
               /\ server_thread' = server_thread
               /\ nut_server' = nut_server
               /\ mqtt_client' = mqtt_client]_vars
    /\ [](\A c \in AllConns :
            (conn[c].fail # "" /\ stop = "idle") =>
               /\ running
               /\ server_thread = "accept" /\ nut_server = "listening"
               /\ \A o \in AllConns \ {c} :
                    /\ conn[o].st = "free" => ENABLED Accept(o)
                    /\ (conn[o].st = "recv" /\ conn[o].nrx < MaxCmds) =>
                         \A cmd \in ServerCommands :
                            ENABLED HandleCommand(o, cmd))

\* a send failed on connection 1 while an update was in progress; connection
\* 2 is in its read loop and has been answered, and the accept loop runs
C15_Witness ==
    /\ conn[1].fail = "send" /\ conn[1].st = "closed"
    /\ conn[2].st = "recv" /\ conn[2].ntx = 1
    /\ mq.pc # "idle"
    /\ server_thread = "accept" /\ running


(***************************************************************************)
(* C16.                                                                    *)
(***************************************************************************)
\* C16: once stop() has set running to false and closed the listening
\* socket, the accept loop and every client read loop eventually exit,
\* whatever the peers do: no thread stays in accept, recv or send.
C16_LoopsExitAfterStop ==
    (stop = "done")
       ~> ( /\ server_thread # "accept"
            /\ \A c \in AllConns : conn[c].st \notin {"recv", "send"} )


C21_PullOnly ==
    /\ [](\A c \in AllConns : conn[c].ntx <= conn[c].nrx)
    /\ [][\A c \in AllConns :
            conn'[c].ntx # conn[c].ntx =>
               /\ conn'[c].ntx = conn[c].ntx + 1
               /\ \/ /\ conn[c].st = "recv"
                     /\ conn'[c].nrx = conn[c].nrx + 1
                     /\ conn'[c].out # NoReply
                     /\ conn'[c].out = ProcessNutCommand(ups_data, conn'[c].last)
                  \/ /\ conn[c].st = "send"
                     /\ conn'[c].nrx = conn[c].nrx
                     /\ conn'[c].out = conn[c].out]_vars
    /\ [][(mq' # mq \/ ups_data' # ups_data \/ nmsg' # nmsg) => conn' = conn]_vars

\* connection 1 was told that ups1 is unknown; the first update of ups1 has
\* since run to its end, and the connection, still open, was sent nothing
\* more
C21_Witness ==
    /\ conn[1].st = "recv"
    /\ conn[1].nrx = 1 /\ conn[1].ntx = 1
    /\ conn[1].last = <<"LIST", "VAR", "ups1">>
    /\ conn[1].out = ErrUnknownUps
    /\ Settled("ups1")


(***************************************************************************)
(* Later in the life of the process: a third pack, a record that comes    *)
(* again, a second device, and the system clock set back.  The run begins  *)
(* in the state the process is in when the two updates of ScenarioPacks    *)
(* have completed for ups1 (a state the serving phase reaches); nmsg       *)
(* counts the messages delivered from there on.                            *)
(***************************************************************************)
Idle50 ==
    [soc |-> 50, vol |-> 12200, temp |-> 21, remainCap |-> 3000,
     designCap |-> 8000, remainTime |-> 60, chgDsgState |-> 0]

\* the device's dict as an update_ups_data call that returns at clock
\* reading t leaves it (lines 243-282), its pack map being packs: the six
\* working fields and the nine published keys
EntryAfter(packs, t) ==
    LET n   == Len(packs)
        ups == [f \in { Fields[i] : i \in 1..Len(Fields) } |->
                  IF Averaged(f) THEN Mean(PyInt(SumOf(packs, f)), n)
                  ELSE PyInt(SumOf(packs, f))]
        dsg == AnyDischarging(packs)
    IN  [packs |-> packs,
         vals  |-> [k \in DOMAIN ups \cup { Published[i] : i \in 1..Len(Published) } |->
                      IF k \in DOMAIN ups THEN ups[k]
                      ELSE IF k = "battery.status"
                      THEN PyStr(IF dsg THEN "ONBATT" ELSE "CHRG")
                      ELSE IF k = "ups.status"
                      THEN PyStr(IF dsg THEN "OB" ELSE "OL")
                      ELSE PublishedValue(ups, k, t)]]

\* the telemetry of these runs: a third pack of ups1, pack 1 once more, and
\* the first record of ups2
LaterMessages ==
    { [topic |-> Topic1,
       payload |-> Frame(32, 50, WithNum(Idle50, MaxPackIdx + 1))],
      [topic |-> Topic1, payload |-> Frame(32, 50, WithNum(Dsg90, 1))],
      [topic |-> Topic2,
       payload |-> MaskedFrame(32, 50, WithNum(Chg12500, 0), 291)] }

\* time.time() is the system's wall clock (line 280): it is set back, by an
\* operator or by a time synchronisation step
ClockSetBack ==
    /\ now > T0
    /\ now' \in T0..(now - 1)
    /\ UNCHANGED << ups_data, running, mq, conn, nmsg, outcome, prior, cb, dec,
                    process >>

LaterCommands ==
    { <<"LIST", "VAR", "ups1">>, <<"LIST", "VAR", "ups2">> }
    \cup { <<"GET", "VAR", "ups1", v>> :
             v \in {"battery.charge", "battery.temperature", "battery.runtime"} }

InitLater ==
    /\ ups_data = [d \in {"ups1"} |-> EntryAfter(ScenarioPacks, T0)]
    /\ prior = [d \in {"ups1"} |-> EntryAfter(SubSeq(ScenarioPacks, 1, 1), T0)]
    /\ outcome = [n \in UpsNames |-> IF n = "ups1" THEN "ok" ELSE "none"]
    /\ cb = [CbNone EXCEPT !.disp = "update", !.decoded = TRUE]
    /\ running = TRUE
    /\ mq = MqIdle
    /\ conn = [c \in AllConns |-> ConnFree]
    /\ now = T0
    /\ nmsg = 0
    /\ dec = DecIdle
    /\ main = "serving"
    /\ stop = "idle"
    /\ nut_server = "listening"
    /\ server_thread = "accept"
    /\ mqtt_client = "started"

NextLater ==
    \/ \E msg \in LaterMessages : OnMqttMessage(msg)
    \/ UpdateStep
    \/ ClockSetBack
    \/ \E c \in Conns : Accept(c)
    \/ \E c \in Conns, cmd \in LaterCommands : HandleCommand(c, cmd)
    \/ \E c \in Conns : PeerClose(c)

SpecLater == InitLater /\ [][NextLater]_vars

(***************************************************************************)
(* C22.                                                                    *)
(***************************************************************************)
\* the variables whose values are averaged or unit-converted, and the
\* integer counters
FloatVars ==
    {"battery.charge", "battery.capacity", "battery.capacity.nominal",
     "battery.voltage", "battery.temperature"}

IntVars == {"battery.runtime", "ups.timestamp"}

\* C22: once an update of a device has completed, for each of its listed
\* variables the text LIST VAR shows is the text GET VAR returns; for
\* charge, capacity, nominal capacity, voltage and temperature it is the
\* value with one decimal digit, and for runtime and timestamp it is an
\* integer without decimals.
C22_OneDecimalInBothReplies ==
    \A d \in UpsNames : Settled(d) =>
        \A i \in 1..Len(ListedVars) :
            LET var    == ListedVars[i]
                value  == ups_data[d].vals[var]
                listed == GetUpsVariables(ups_data, d)[i + 1][4]
                got    == GetVarReply(ups_data, <<"GET", "VAR", d, var>>)[1][4]
            IN  /\ listed = got
                /\ var \in FloatVars => listed = Fix1(value)
                /\ var \in IntVars =>
                     value.k = "int" /\ listed = ToString(value.n)


(***************************************************************************)
(* C23.                                                                    *)
(***************************************************************************)
\* the entry is one a completed update leaves for its pack map
IsComplete(entry) ==
    /\ "ups.timestamp" \in DOMAIN entry.vals
    /\ entry = EntryAfter(entry.packs, entry.vals["ups.timestamp"].n)

\* the two dicts agree on every key but ups.timestamp
SameButTime(v, w) ==
    /\ DOMAIN v = DOMAIN w
    /\ \A k \in DOMAIN v \ {"ups.timestamp"} : v[k] = w[k]

\* C23: the step of an update that stores its record replaces the record of
\* the same pack index, leaving the number of packs as it was, or adds the
\* record as a new pack, making it one more, and touches no other pack; no
\* pack map ever holds two records of one index; once an update has
\* completed, the device's values are those of its pack map alone, each
\* pack counted once; and when the record applied last left the pack map
\* as it was after the update before it, the values are, but for the
\* timestamp, as they were then.
C23_UpsertByPackIndex ==
    /\ [][(mq.pc = "upsert" /\ mq'.pc = "zero" /\ UUpsert) =>
            LET old == ups_data[mq.ups_name].packs
                new == ups_data'[mq.ups_name].packs
                at  == { i \in 1..Len(old) : old[i]["num"] = mq.data["num"] }
            IN  /\ Cardinality(at) <= 1
                /\ Len(new) = Len(old) + (IF at = {} THEN 1 ELSE 0)
                /\ \A i \in 1..Len(old) :
                     new[i] = IF i \in at THEN mq.data ELSE old[i]
                /\ at = {} => new[Len(new)] = mq.data]_vars
    /\ [](\A d \in DOMAIN ups_data :
            /\ \A i, j \in 1..Len(ups_data[d].packs) :
                 ups_data[d].packs[i]["num"] = ups_data[d].packs[j]["num"]
                    => i = j
            /\ Settled(d) =>
                 /\ IsComplete(ups_data[d])
                 /\ ( /\ d \in DOMAIN prior
                      /\ IsComplete(prior[d])
                      /\ prior[d].packs = ups_data[d].packs )
                    => SameButTime(prior[d].vals, ups_data[d].vals))

\* the record of pack 0 of ups1 was applied twice in a row: one pack, and
\* the values of the first time
C23_Witness ==
    /\ Settled("ups1")
    /\ nmsg = 2
    /\ "ups1" \in DOMAIN prior
    /\ IsComplete(prior["ups1"])
    /\ prior["ups1"].packs = ups_data["ups1"].packs
    /\ ups_data["ups1"].packs = << WithNum(Dsg90, 0) >>
    /\ ups_data["ups1"].vals["battery.charge"] = PyFloat(90, 1)


(***************************************************************************)
(* C24.                                                                    *)
(***************************************************************************)
\* the replies _process_nut_command gives for the lines, one after the
\* other, those that get none left out
RepliesTo(lines) ==
    SelectSeq([i \in 1..Len(lines) |-> ProcessNutCommand(ups_data, lines[i])],
              LAMBDA r : r # NoReply)

\* C24: when everything a peer has written has been read, the replies sent
\* on the connection are the replies to its command lines, one for each
\* line and in the order of the lines, however the lines were cut into
\* reads.
C24_EveryLineAnswered ==
    \A c \in Conns :
        (conn[c].st # "free" /\ conn[c].buf = << >>)
           => conn[c].replies = RepliesTo(conn[c].lines)


(***************************************************************************)
(* C25.                                                                    *)
(***************************************************************************)
\* C25: when an update ends with an error, the devices that hold state,
\* the pack map of each and the values served for each are what they were
\* when the update began.
C25_UpdateAllOrNothing ==
    [][(mq.pc # "idle" /\ mq'.pc = "idle" /\ outcome'[mq.ups_name] = "err") =>
          /\ DOMAIN ups_data' = DOMAIN prior
          /\ \A d \in DOMAIN prior :
               /\ ups_data'[d].packs = prior[d].packs
               /\ GetUpsVariables(ups_data', d) = GetUpsVariables(prior, d)]_vars


C27_FrameConditions ==
    /\ [][\A d \in DOMAIN ups_data :
            /\ d \in DOMAIN ups_data'
            /\ ups_data'[d] # ups_data[d] => Updating(d)]_vars
    /\ [][DOMAIN ups_data' # DOMAIN ups_data =>
            /\ mq.pc # "idle"
            /\ DOMAIN ups_data' = DOMAIN ups_data \cup {mq.ups_name}]_vars
    /\ [][conn' # conn => (ups_data' = ups_data /\ mq' = mq)]_vars

\* ups2 was updated after ups1, whose entry is as it was before that
\* update, and a client has since sent an unknown command and then been
\* served the variables of ups1
C27_Witness ==
    /\ Settled("ups1") /\ Settled("ups2")
    /\ "ups1" \in DOMAIN prior /\ "ups2" \notin DOMAIN prior
    /\ prior["ups1"] = ups_data["ups1"]
    /\ \E c \in Conns :
         /\ conn[c].last = <<"LIST", "VAR", "ups1">>
         /\ conn[c].out = GetUpsVariables(ups_data, "ups1")
         /\ conn[c].afterUnknown


(***************************************************************************)
(* C28.                                                                    *)
(***************************************************************************)
\* the ups.timestamp of a device's entry, -1 when it has none yet
Ts(entry) ==
    IF "ups.timestamp" \in DOMAIN entry.vals
    THEN entry.vals["ups.timestamp"].n ELSE -1

\* in this step no device loses its entry or a pack, and a LIST VAR or GET
\* VAR read in it for a device that holds state is not answered with ERR
\* UNKNOWN-UPS
StateKept ==
    /\ \A d \in DOMAIN ups_data :
         /\ d \in DOMAIN ups_data'
         /\ Len(ups_data'[d].packs) >= Len(ups_data[d].packs)
    /\ \A c \in Conns : \A d \in DOMAIN ups_data :
         (conn'[c].nrx # conn[c].nrx /\ Targets(conn'[c].last, d))
            => conn'[c].out # ErrUnknownUps

\* C28 as claimed: no entry is ever removed, no pack count ever decreases,
\* a device that holds state is never answered with ERR UNKNOWN-UPS, and no
\* step makes the timestamp of a device smaller.
C28_StateKeptAndTimestampGrows ==
    [][ /\ StateKept
        /\ \A d \in DOMAIN ups_data :
             Ts(ups_data'[d]) >= Ts(ups_data[d]) ]_vars

\* C28 as amended: no entry is ever removed, no pack count ever decreases,
\* a device that holds state is never answered with ERR UNKNOWN-UPS, and a
\* step that changes the timestamp of a device sets it to the reading of
\* the system clock in that step, which is not below the clock as it last
\* stood: the timestamp gets smaller only when the clock had been set back
\* below it.
C28_StateKeptAndTimestampIsClock ==
    [][ /\ StateKept
        /\ \A d \in DOMAIN ups_data :
             Ts(ups_data'[d]) # Ts(ups_data[d]) =>
                /\ Ts(ups_data'[d]) = now'
                /\ now' >= now
                /\ Ts(ups_data'[d]) < Ts(ups_data[d]) => now < Ts(ups_data[d])
      ]_vars

\* ups1 got its third pack in an update stamped T0, after an update stamped
\* T0 + 1 and the clock set back in between; a client was then served its
\* variables
C28_Witness ==
    /\ Settled("ups1")
    /\ Len(ups_data["ups1"].packs) = 3 /\ Len(prior["ups1"].packs) = 2
    /\ Ts(prior["ups1"]) = T0 + 1
    /\ Ts(ups_data["ups1"]) = T0
    /\ \E c \in Conns :
         /\ conn[c].last = <<"LIST", "VAR", "ups1">>
         /\ conn[c].out = GetUpsVariables(ups_data, "ups1")

=============================================================================
